---- MODULE Spec2Model ----
(***************************************************************************)
(* Relationship-consistent CRUD service layer (users, profiles, posts,     *)
(* categories, post-category join rows, comments) over a PostgreSQL store  *)
(* reached through the Prisma client.                                      *)
(*                                                                         *)
(* The store is one record `db` of six tables plus the autoincrement       *)
(* sequences.  Every Prisma call is an operator from a store to a result   *)
(* [db, status, value]; every service method is an operator built from the *)
(* Prisma calls it makes.  A handler whose method awaits the store once is *)
(* one action; a handler whose method awaits it more than once             *)
(* (updateProfile, addCategories, removeCategory, addComment,              *)
(* cleanDatabase) is one action per await, and the statements of other     *)
(* requests reach the store between them.                                  *)
(***************************************************************************)
EXTENDS Integers, Sequences, FiniteSets, TLC

VARIABLES db, last, calls, steps

vars == <<db, last, calls, steps>>

\* ------------------------------------------------------------------ bounds
MaxUsers == 2
MaxProfiles == 2
MaxPosts == 2
MaxCategories == 3
MaxPostCategories == 3
MaxComments == 2
MaxClock == 1
MaxIdsLen == 2
MaxLimit == 3
MaxRows == 5
\* Posts created while addCategories or addComment is served await by await
MaxStepPosts == 1

\* ------------------------------------------------------- program constants
DefaultLimit == 10

\* --------------------------------------------------------------- signals
NULL == "null"
UNDEF == "undefined"
OK == "ok"
NotFoundException == "NotFoundException"
ConflictException == "ConflictException"
P2002 == "P2002"
P2003 == "P2003"
P2025 == "P2025"
P1001 == "P1001"
BadRequestException == "BadRequestException"
Error == "Error"
PrismaClientValidationError == "PrismaClientValidationError"

\* ------------------------------------------------------------ input sets
Emails == {"a@x.com", "b@x.com"}
Names == {UNDEF, "Ann"}
ProfileInputs ==
    { [bio |-> "hello world!", avatar |-> UNDEF, website |-> UNDEF],
      [bio |-> UNDEF, avatar |-> UNDEF, website |-> "https://a.dev"] }
CategoryInputs ==
    { [name |-> "Technology", slug |-> "technology"],
      [name |-> "Database", slug |-> "database"],
      [name |-> "Tutorial", slug |-> "tutorial"],
      [name |-> "Technology", slug |-> "tech"] }
Titles == {"Learning Prisma"}
Contents == {"Great post!"}

\* Arrays of ids a request body can carry, up to n long.
IdSeqs(ids, n) == UNION { [1..k -> ids] : k \in 0..n }

\* ----------------------------------------------------------------- store
EmptyDb ==
    [ users |-> {}, profiles |-> {}, posts |-> {}, categories |-> {},
      postCategories |-> {}, comments |-> {},
      seq |-> [user |-> 0, profile |-> 0, post |-> 0, category |-> 0,
               postCategory |-> 0, comment |-> 0],
      clock |-> 0 ]

\* The rows of a store, without its sequences and clock.
Rows(D) ==
    [ users |-> D.users, profiles |-> D.profiles, posts |-> D.posts,
      categories |-> D.categories, postCategories |-> D.postCategories,
      comments |-> D.comments ]

Res(D, status, value) == [db |-> D, status |-> status, value |-> value]

\* undefined optional field of a create input is stored as NULL
Stored(v) == IF v = UNDEF THEN NULL ELSE v

\* undefined field of an update input leaves the stored value alone
Patched(old, v) == IF v = UNDEF THEN old ELSE v

TheOne(S) == CHOOSE x \in S : TRUE

UserRows(D, id) == {u \in D.users : u.id = id}
ProfileRowsOf(D, userId) == {p \in D.profiles : p.userId = userId}
PostRows(D, id) == {p \in D.posts : p.id = id}
CategoryRows(D, id) == {c \in D.categories : c.id = id}
CommentRows(D, id) == {c \in D.comments : c.id = id}
JoinRowsOfPost(D, postId) == {j \in D.postCategories : j.postId = postId}
JoinRowsOfCategory(D, cid) == {j \in D.postCategories : j.categoryId = cid}

\* -------------------------------------------------- schema (constraints)
\* User.email @unique
EmailTaken(D, email) == \E u \in D.users : u.email = email

\* Profile.userId @unique
ProfileUserTaken(D, userId) == ProfileRowsOf(D, userId) # {}

\* Category.name @unique, Category.slug @unique
CategoryKeyTaken(D, name, slug) ==
    \E c \in D.categories : c.name = name \/ c.slug = slug

\* PostCategory @@unique([postId, categoryId])
PairTaken(joins, postId, cid) ==
    \E j \in joins : j.postId = postId /\ j.categoryId = cid

\* onDelete: Cascade on Profile.user, Post.author, Comment.author,
\* Comment.post, PostCategory.post
CascadeUser(D, id) ==
    LET gone == {p.id : p \in {q \in D.posts : q.authorId = id}}
    IN [ D EXCEPT
           !.users = {u \in @ : u.id # id},
           !.profiles = {p \in @ : p.userId # id},
           !.posts = {p \in @ : p.authorId # id},
           !.comments = {c \in @ : c.authorId # id /\ c.postId \notin gone},
           !.postCategories = {j \in @ : j.postId \notin gone} ]

\* onDelete: Cascade on Comment.post, PostCategory.post
CascadePost(D, id) ==
    [ D EXCEPT
        !.posts = {p \in @ : p.id # id},
        !.comments = {c \in @ : c.postId # id},
        !.postCategories = {j \in @ : j.postId # id} ]

\* Category.name @unique, Category.slug @unique, for a row that changes
CategoryKeyTakenByOther(D, id, name, slug) ==
    \E c \in D.categories : c.id # id /\ (c.name = name \/ c.slug = slug)

\* onDelete: Cascade on PostCategory.category
CascadeCategory(D, id) ==
    [ D EXCEPT
        !.categories = {c \in @ : c.id # id},
        !.postCategories = {j \in @ : j.categoryId # id} ]

\* ------------------------------------------------------ Prisma: user
\* A nullable row is a set: None, or Some(row).
None == {}
Some(x) == {x}

ProfileRow(pid, userId, data) ==
    [ id |-> pid, userId |-> userId, bio |-> Stored(data.bio),
      avatar |-> Stored(data.avatar), website |-> Stored(data.website) ]

\* prisma.user.create({data, [profile: {create}], include: {profile}})
\* `nested` is None for a plain create, Some(profile data) for a nested one.
\* The nested write runs in one transaction: it stores both rows or none.
\* (Ids only name rows: the gap a rolled-back insert leaves in a sequence is
\* not modelled.)
PrismaUserCreate(D, data, nested) ==
    LET id == D.seq.user + 1
        D1 == [D EXCEPT !.seq.user = id]
        user == [id |-> id, email |-> data.email, name |-> Stored(data.name)]
        D2 == [D1 EXCEPT !.users = @ \cup {user}]
        pid == D.seq.profile + 1
        profs == {ProfileRow(pid, id, p) : p \in nested}
    IN IF EmailTaken(D, data.email) THEN Res(D, P2002, None)
       ELSE IF nested = None
            THEN Res(D2, OK, Some([user |-> user, profile |-> None]))
       ELSE Res([D2 EXCEPT !.profiles = @ \cup profs, !.seq.profile = pid],
                OK, Some([user |-> user, profile |-> profs]))

\* prisma.user.findUnique({where: {id}, include: {profile: true}})
PrismaUserFindUniqueWithProfile(D, id) ==
    {[user |-> u, profile |-> ProfileRowsOf(D, id)] : u \in UserRows(D, id)}

\* prisma.profile.update({where: {userId}, data})
PrismaProfileUpdate(D, userId, data) ==
    IF ProfileRowsOf(D, userId) = {} THEN Res(D, P2025, None)
    ELSE LET old == TheOne(ProfileRowsOf(D, userId))
             new == [ old EXCEPT !.bio = Patched(@, data.bio),
                                 !.avatar = Patched(@, data.avatar),
                                 !.website = Patched(@, data.website) ]
         IN Res([D EXCEPT !.profiles = (@ \ {old}) \cup {new}], OK, Some(new))

\* prisma.profile.create({data: {...profileData, userId}})
PrismaProfileCreate(D, data, userId) ==
    LET pid == D.seq.profile + 1
        D1 == [D EXCEPT !.seq.profile = pid]
        prof == ProfileRow(pid, userId, data)
    IN IF ProfileUserTaken(D, userId) THEN Res(D, P2002, None)
       ELSE IF UserRows(D, userId) = {} THEN Res(D, P2003, None)
       ELSE Res([D1 EXCEPT !.profiles = @ \cup {prof}], OK, Some(prof))

\* prisma.user.delete({where: {id}})
PrismaUserDelete(D, id) ==
    IF UserRows(D, id) = {} THEN Res(D, P2025, None)
    ELSE Res(CascadeUser(D, id), OK, UserRows(D, id))

\* A user update that stores the new email whoever else holds it.
PrismaUserUpdate_NoUnique(D, id, data) ==
    IF UserRows(D, id) = {} THEN Res(D, P2025, None)
    ELSE LET old == TheOne(UserRows(D, id))
             new == [ old EXCEPT !.email = Patched(@, data.email),
                                 !.name = Patched(@, data.name) ]
         IN Res([D EXCEPT !.users = (@ \ {old}) \cup {new}], OK,
                Some([user |-> new, profile |-> ProfileRowsOf(D, id)]))

\* prisma.user.update({where: {id}, data, include: {profile: true}})
PrismaUserUpdate(D, id, data) ==
    IF UserRows(D, id) = {} THEN Res(D, P2025, None)
    ELSE LET old == TheOne(UserRows(D, id))
             new == [ old EXCEPT !.email = Patched(@, data.email),
                                 !.name = Patched(@, data.name) ]
         IN IF new.email # old.email /\ EmailTaken(D, new.email)
            THEN Res(D, P2002, None)
            ELSE Res([D EXCEPT !.users = (@ \ {old}) \cup {new}], OK,
                     Some([user |-> new, profile |-> ProfileRowsOf(D, id)]))

\* ------------------------------------------------------ UsersService
UsersService_create(D, data) == PrismaUserCreate(D, data, None)

\* createWithProfile without its nested profile create
UsersService_createWithProfile_Plain(D, data) ==
    PrismaUserCreate(D, [email |-> data.email, name |-> data.name], None)

UsersService_createWithProfile(D, data) ==
    PrismaUserCreate(D, [email |-> data.email, name |-> data.name],
                     Some(data.profile))

\* prisma.user.findUnique with the deep include of findOne
PrismaUserFindUniqueDeep(D, id) ==
    { [ user |-> u,
        profile |-> ProfileRowsOf(D, id),
        posts |-> { [ post |-> p,
                      categories |-> JoinRowsOfPost(D, p.id),
                      comments |-> {c \in D.comments : c.postId = p.id} ]
                    : p \in {q \in D.posts : q.authorId = id} },
        comments |-> {c \in D.comments : c.authorId = id} ]
      : u \in UserRows(D, id) }

UsersService_findOne(D, id) ==
    LET user == PrismaUserFindUniqueDeep(D, id)
    IN IF user = None THEN Res(D, NotFoundException, None)
       ELSE Res(D, OK, user)

\* updateProfile without its branch on user.profile: it always creates
UpdateProfileWrite_AlwaysCreate(D, user, userId, profileData) ==
    IF user = None THEN Res(D, NotFoundException, None)
    ELSE PrismaProfileCreate(D, profileData, userId)

\* The part of updateProfile after its read: `user` is what the read returned.
UpdateProfileWrite(D, user, userId, profileData) ==
    IF user = None THEN Res(D, NotFoundException, None)
    ELSE IF TheOne(user).profile # None
         THEN PrismaProfileUpdate(D, userId, profileData)
    ELSE PrismaProfileCreate(D, profileData, userId)

UsersService_updateProfile(D, userId, profileData) ==
    UpdateProfileWrite(D, PrismaUserFindUniqueWithProfile(D, userId),
                       userId, profileData)

UsersService_update(D, id, data) == PrismaUserUpdate(D, id, data)

\* remove deleting the user row alone, with nothing cascading from it
UsersService_remove_UserRowOnly(D, id) ==
    LET r == PrismaUserDelete(D, id)
    IN IF r.status # OK THEN r
       ELSE Res([D EXCEPT !.users = {u \in @ : u.id # id}], OK, r.value)

UsersService_remove(D, id) == PrismaUserDelete(D, id)

\* ------------------------------------------------------ Prisma: category
\* prisma.category.create({data})
PrismaCategoryCreate(D, data) ==
    LET id == D.seq.category + 1
        D1 == [D EXCEPT !.seq.category = id]
        cat == [id |-> id, name |-> data.name, slug |-> data.slug]
    IN IF CategoryKeyTaken(D, data.name, data.slug) THEN Res(D, P2002, None)
       ELSE Res([D1 EXCEPT !.categories = @ \cup {cat}], OK, Some(cat))

\* include: {posts: {include: {post: ...}}}
CategoryWithPosts(D, c) ==
    [ category |-> c,
      posts |-> { [join |-> j, post |-> PostRows(D, j.postId)]
                  : j \in JoinRowsOfCategory(D, c.id) } ]

\* prisma.category.findUnique({where: {id}, include})
PrismaCategoryFindUniqueById(D, id) ==
    {CategoryWithPosts(D, c) : c \in CategoryRows(D, id)}

\* prisma.category.findUnique({where: {slug}, include})
PrismaCategoryFindUniqueBySlug(D, slug) ==
    {CategoryWithPosts(D, c) : c \in {x \in D.categories : x.slug = slug}}

\* _count: {select: {posts: true}}
PostCount(D, cid) == Cardinality(JoinRowsOfCategory(D, cid))

\* The orders in which the store may return the categories under
\* orderBy: {posts: {_count: 'desc'}}: the query names no second key, so rows
\* of equal count come in any order.
OrdersByPostCountDesc(D) ==
    LET n == Cardinality(D.categories)
    IN { s \in [1..n -> D.categories] :
           /\ \A i, j \in 1..n : i # j => s[i] # s[j]
           /\ \A i \in 1..n : \A j \in 1..n :
                i < j => PostCount(D, s[i].id) >= PostCount(D, s[j].id) }

Min(a, b) == IF a <= b THEN a ELSE b

\* take: limit
Take(s, limit) == SubSeq(s, 1, Min(limit, Len(s)))

\* prisma.category.update({where: {id}, data})
PrismaCategoryUpdate(D, id, data) ==
    IF CategoryRows(D, id) = {} THEN Res(D, P2025, None)
    ELSE LET old == TheOne(CategoryRows(D, id))
             new == [ old EXCEPT !.name = Patched(@, data.name),
                                 !.slug = Patched(@, data.slug) ]
         IN IF CategoryKeyTakenByOther(D, id, new.name, new.slug)
            THEN Res(D, P2002, None)
            ELSE Res([D EXCEPT !.categories = (@ \ {old}) \cup {new}], OK,
                     Some(new))

\* prisma.category.delete({where: {id}})
PrismaCategoryDelete(D, id) ==
    IF CategoryRows(D, id) = {} THEN Res(D, P2025, None)
    ELSE Res(CascadeCategory(D, id), OK, CategoryRows(D, id))

\* ------------------------------------------------------ CategoriesService
\* The signal a catch block of the service turns an error code into.
\* create: P2002 becomes a conflict, anything else is thrown again.
CategoriesService_createCatch(code) ==
    IF code = P2002 THEN ConflictException ELSE code

\* update without its P2002 branch
CategoriesService_updateCatch_NoConflict(code) ==
    IF code = P2025 THEN NotFoundException ELSE code

\* update: P2002 becomes a conflict, P2025 a not-found.
CategoriesService_updateCatch(code) ==
    IF code = P2002 THEN ConflictException
    ELSE IF code = P2025 THEN NotFoundException
    ELSE code

\* remove: P2025 becomes a not-found.
CategoriesService_removeCatch(code) ==
    IF code = P2025 THEN NotFoundException ELSE code

CategoriesService_create(D, data) ==
    LET r == PrismaCategoryCreate(D, data)
    IN IF r.status = OK THEN r
       ELSE Res(r.db, CategoriesService_createCatch(r.status), None)

CategoriesService_update(D, id, data) ==
    LET r == PrismaCategoryUpdate(D, id, data)
    IN IF r.status = OK THEN r
       ELSE Res(r.db, CategoriesService_updateCatch(r.status), None)

\* remove taking the posts attached to the category along
CategoriesService_remove_WithPosts(D, id) ==
    LET r == PrismaCategoryDelete(D, id)
        attached == {j.postId : j \in JoinRowsOfCategory(D, id)}
    IN IF r.status = OK
       THEN Res([r.db EXCEPT !.posts = {p \in @ : p.id \notin attached}],
                OK, r.value)
       ELSE Res(r.db, CategoriesService_removeCatch(r.status), None)

CategoriesService_remove(D, id) ==
    LET r == PrismaCategoryDelete(D, id)
    IN IF r.status = OK THEN r
       ELSE Res(r.db, CategoriesService_removeCatch(r.status), None)

CategoriesService_findOne(D, id) ==
    LET category == PrismaCategoryFindUniqueById(D, id)
    IN IF category = None THEN Res(D, NotFoundException, None)
       ELSE Res(D, OK, category)

\* findBySlug without its throw: a missing slug returns null
CategoriesService_findBySlug_NoThrow(D, slug) ==
    Res(D, OK, PrismaCategoryFindUniqueBySlug(D, slug))

CategoriesService_findBySlug(D, slug) ==
    LET category == PrismaCategoryFindUniqueBySlug(D, slug)
    IN IF category = None THEN Res(D, NotFoundException, None)
       ELSE Res(D, OK, category)

\* getPopularCategories without `take: limit`
CategoriesService_getPopularCategories_NoTake(D, limitArg, order) ==
    Res(D, OK,
        Some([ i \in 1..Len(order) |->
                 [ category |-> order[i],
                   count |-> PostCount(D, order[i].id) ] ]))

\* `limitArg` is None when the caller gives no limit; `order` is the order
\* in which the store returned the rows.
CategoriesService_getPopularCategories(D, limitArg, order) ==
    LET limit == IF limitArg = None THEN DefaultLimit ELSE TheOne(limitArg)
        categories == Take(order, limit)
    IN Res(D, OK,
           Some([ i \in 1..Len(categories) |->
                    [ category |-> categories[i],
                      count |-> PostCount(D, categories[i].id) ] ]))

\* ------------------------------------------------------ Prisma: post
\* The first index of `ids` at which the nested create of join rows fails:
\* the category to connect is missing, or the pair repeats an earlier one.
\* 0 when every nested create succeeds.
MissingAt(D, ids, i) == CategoryRows(D, ids[i]) = {}
RepeatsAt(ids, i) == \E j \in 1..(i - 1) : ids[j] = ids[i]
FirstBad(D, ids) ==
    LET bad == {i \in 1..Len(ids) : MissingAt(D, ids, i) \/ RepeatsAt(ids, i)}
    IN IF bad = {} THEN 0 ELSE CHOOSE i \in bad : \A j \in bad : i <= j

\* prisma.post.create({data: {...postData, [categories: {create: [...]}]}})
\* `nested` is None for a plain create, Some(categoryIds) for the nested one.
\* One transaction: a failure anywhere leaves no row.
PrismaPostCreate(D, data, nested) ==
    LET id == D.seq.post + 1
        s == D.seq.postCategory
        ids == IF nested = None THEN <<>> ELSE TheOne(nested)
        post == [ id |-> id, title |-> data.title,
                  published |-> IF data.published = None THEN FALSE
                                ELSE TheOne(data.published),
                  authorId |-> data.authorId ]
        joins == { [id |-> s + i, postId |-> id, categoryId |-> ids[i]]
                   : i \in 1..Len(ids) }
        b == FirstBad(D, ids)
        D1 == [D EXCEPT !.seq.post = id]
    IN IF UserRows(D, data.authorId) = {} THEN Res(D, P2003, None)
       ELSE IF b # 0 /\ MissingAt(D, ids, b) THEN Res(D, P2025, None)
       ELSE IF b # 0 THEN Res(D, P2002, None)
       ELSE Res([ D1 EXCEPT !.posts = @ \cup {post},
                            !.postCategories = @ \cup joins,
                            !.seq.postCategory = s + Len(ids) ],
                OK, Some([ post |-> post, author |-> UserRows(D, data.authorId),
                           categories |-> joins ]))

\* orderBy: {createdAt: 'desc'} over the rows in the order the store found
\* them: rows of equal createdAt stay in that order.
RECURSIVE InsertByCreatedAtDesc(_, _)
InsertByCreatedAtDesc(s, c) ==
    IF s = <<>> THEN <<c>>
    ELSE IF Head(s).createdAt >= c.createdAt
         THEN <<Head(s)>> \o InsertByCreatedAtDesc(Tail(s), c)
    ELSE <<c>> \o s

RECURSIVE SortByCreatedAtDesc(_)
SortByCreatedAtDesc(s) ==
    IF s = <<>> THEN <<>>
    ELSE InsertByCreatedAtDesc(SortByCreatedAtDesc(SubSeq(s, 1, Len(s) - 1)),
                               s[Len(s)])

\* orderBy without effect: the rows come as the store found them
OrderByCreatedAtDesc_Ignored(s) == s

\* orderBy: {createdAt: 'desc'} of findOne's include and of the two
\* findMany of the comments service
OrderByCreatedAtDesc(s) == SortByCreatedAtDesc(s)

CommentsOfPost(D, postId) == {c \in D.comments : c.postId = postId}

\* prisma.post.findUnique({where: {id}, include: {author, categories, comments}})
\* `comments` is the order in which the store found the post's comments,
\* which the include then orders by createdAt.
PrismaPostFindUniqueDeep(D, id, comments) ==
    { [ post |-> p,
        author |-> PrismaUserFindUniqueWithProfile(D, p.authorId),
        categories |-> { [join |-> j, category |-> CategoryRows(D, j.categoryId)]
                         : j \in JoinRowsOfPost(D, id) },
        comments |-> OrderByCreatedAtDesc(comments) ]
      : p \in PostRows(D, id) }

\* A createMany that leaves out the rows whose category is missing and
\* inserts the others.
PrismaPostCategoryCreateMany_SkipMissing(D, postId, ids, skipDuplicates) ==
    LET n == Len(ids)
        s == D.seq.postCategory
        fresh == { i \in 1..n : /\ ~PairTaken(D.postCategories, postId, ids[i])
                                /\ ~RepeatsAt(ids, i)
                                /\ ~MissingAt(D, ids, i) }
        rank(i) == Cardinality({k \in fresh : k <= i})
        rows == { [id |-> s + rank(i), postId |-> postId, categoryId |-> ids[i]]
                  : i \in fresh }
    IN IF PostRows(D, postId) = {} THEN Res(D, P2003, None)
       ELSE Res([ D EXCEPT !.postCategories = @ \cup rows,
                           !.seq.postCategory = s + Cardinality(rows) ],
                OK, Some([count |-> Cardinality(rows)]))

\* prisma.postCategory.createMany({data, skipDuplicates}): one INSERT, with
\* ON CONFLICT DO NOTHING when skipDuplicates is set, so a row whose pair is
\* already stored, or was given earlier in `data`, is left out.
PrismaPostCategoryCreateMany(D, postId, ids, skipDuplicates) ==
    LET n == Len(ids)
        s == D.seq.postCategory
        fresh == { i \in 1..n : /\ ~PairTaken(D.postCategories, postId, ids[i])
                                /\ ~RepeatsAt(ids, i) }
        rank(i) == Cardinality({k \in fresh : k <= i})
        rows == { [id |-> s + rank(i), postId |-> postId, categoryId |-> ids[i]]
                  : i \in fresh }
    IN IF n = 0 THEN Res(D, OK, Some([count |-> 0]))
       ELSE IF ~skipDuplicates /\ fresh # 1..n THEN Res(D, P2002, None)
       ELSE IF PostRows(D, postId) = {} \/ \E i \in 1..n : MissingAt(D, ids, i)
            THEN Res(D, P2003, None)
       ELSE Res([ D EXCEPT !.postCategories = @ \cup rows,
                           !.seq.postCategory = s + Cardinality(rows) ],
                OK, Some([count |-> Cardinality(rows)]))

\* prisma.postCategory.deleteMany({where: {postId, categoryId}})
PrismaPostCategoryDeleteMany(D, postId, categoryId) ==
    LET hit == { j \in D.postCategories :
                   j.postId = postId /\ j.categoryId = categoryId }
    IN Res([D EXCEPT !.postCategories = @ \ hit], OK,
           Some([count |-> Cardinality(hit)]))

\* prisma.post.update({where: {id}, data, include: {author, categories}})
PrismaPostUpdate(D, id, data) ==
    IF PostRows(D, id) = {} THEN Res(D, P2025, None)
    ELSE LET old == TheOne(PostRows(D, id))
             new == [ old EXCEPT !.title = Patched(@, data.title),
                                 !.published = IF data.published = None THEN @
                                               ELSE TheOne(data.published) ]
         IN Res([D EXCEPT !.posts = (@ \ {old}) \cup {new}], OK,
                Some([ post |-> new, author |-> UserRows(D, new.authorId),
                       categories |-> JoinRowsOfPost(D, id) ]))

\* prisma.post.delete({where: {id}})
PrismaPostDelete(D, id) ==
    IF PostRows(D, id) = {} THEN Res(D, P2025, None)
    ELSE Res(CascadePost(D, id), OK, PostRows(D, id))

\* ------------------------------------------------------ PostsService
\* create storing the post whether or not its authorId names a user
PostsService_create_AnyAuthor(D, data) ==
    LET id == D.seq.post + 1
        post == [ id |-> id, title |-> data.title,
                  published |-> IF data.published = None THEN FALSE
                                ELSE TheOne(data.published),
                  authorId |-> data.authorId ]
    IN Res([D EXCEPT !.seq.post = id, !.posts = @ \cup {post}], OK,
           { [post |-> post, author |-> UserRows(D, data.authorId)] })

\* include: {author: true}
PostsService_create(D, data) ==
    LET r == PrismaPostCreate(D, data, None)
    IN IF r.status # OK THEN r
       ELSE Res(r.db, OK, { [post |-> v.post, author |-> v.author]
                            : v \in r.value })

\* createWithCategories as two writes: the post, then its join rows
PostsService_createWithCategories_TwoWrites(D, data) ==
    LET made == PrismaPostCreate(D, [ title |-> data.title,
                                      published |-> data.published,
                                      authorId |-> data.authorId ], None)
        postId == TheOne(made.value).post.id
        joined == PrismaPostCategoryCreateMany(made.db, postId,
                                               data.categoryIds, FALSE)
    IN IF made.status # OK THEN made
       ELSE IF joined.status # OK THEN Res(made.db, joined.status, None)
       ELSE Res(joined.db, OK,
                Some([ post |-> TheOne(made.value).post,
                       author |-> TheOne(made.value).author,
                       categories |-> JoinRowsOfPost(joined.db, postId) ]))

PostsService_createWithCategories(D, data) ==
    PrismaPostCreate(D, [ title |-> data.title, published |-> data.published,
                          authorId |-> data.authorId ],
                     Some(data.categoryIds))

PostsService_findOne(D, id, comments) ==
    LET post == PrismaPostFindUniqueDeep(D, id, comments)
    IN IF post = None THEN Res(D, NotFoundException, None)
       ELSE Res(D, OK, post)

\* addCategories without skipDuplicates
PostsService_addCategories_NoSkip(D, postId, categoryIds, comments) ==
    LET check == PostsService_findOne(D, postId, comments)
        made == PrismaPostCategoryCreateMany(D, postId, categoryIds, FALSE)
    IN IF check.status # OK THEN check
       ELSE IF made.status # OK THEN made
       ELSE PostsService_findOne(made.db, postId, comments)

\* `comments` is the order in which the store finds the comments for findOne.
PostsService_addCategories(D, postId, categoryIds, comments) ==
    LET check == PostsService_findOne(D, postId, comments)
        made == PrismaPostCategoryCreateMany(D, postId, categoryIds, TRUE)
    IN IF check.status # OK THEN check
       ELSE IF made.status # OK THEN made
       ELSE PostsService_findOne(made.db, postId, comments)

\* removeCategory deleting by postId alone
PostsService_removeCategory_AllOfPost(D, postId, categoryId, comments) ==
    LET gone == [D EXCEPT !.postCategories = {j \in @ : j.postId # postId}]
    IN PostsService_findOne(gone, postId, comments)

\* removeCategory refusing a pair that is not stored
PostsService_removeCategory_Strict(D, postId, categoryId, comments) ==
    LET gone == PrismaPostCategoryDeleteMany(D, postId, categoryId)
    IN IF TheOne(gone.value).count = 0 THEN Res(D, NotFoundException, None)
       ELSE PostsService_findOne(gone.db, postId, comments)

PostsService_removeCategory(D, postId, categoryId, comments) ==
    LET gone == PrismaPostCategoryDeleteMany(D, postId, categoryId)
    IN PostsService_findOne(gone.db, postId, comments)

\* update with a lifecycle rule: a published post cannot be unpublished
PostsService_update_PublishOnce(D, id, data) ==
    IF /\ data.published = Some(FALSE)
       /\ \E p \in PostRows(D, id) : p.published
    THEN Res(D, BadRequestException, None)
    ELSE PrismaPostUpdate(D, id, data)

PostsService_update(D, id, data) == PrismaPostUpdate(D, id, data)

\* remove deleting the post row and nothing under it
PostsService_remove_PostRowOnly(D, id) ==
    IF PostRows(D, id) = {} THEN Res(D, P2025, None)
    ELSE Res([D EXCEPT !.posts = {p \in @ : p.id # id}], OK, PostRows(D, id))

PostsService_remove(D, id) == PrismaPostDelete(D, id)

\* ------------------------------------------------------ Prisma: comment
\* A comment create that stores the row whatever its postId and authorId name.
PrismaCommentCreate_NoForeignKey(D, data, tick) ==
    LET id == D.seq.comment + 1
        now == D.clock + tick
        comment == [ id |-> id, content |-> data.content,
                     postId |-> data.postId, authorId |-> data.authorId,
                     createdAt |-> now ]
    IN Res([D EXCEPT !.seq.comment = id, !.comments = @ \cup {comment},
                     !.clock = now],
           OK, Some(comment))

\* prisma.comment.create({data}); createdAt defaults to now(), which is
\* `tick` later than the previous reading of the clock.
PrismaCommentCreate(D, data, tick) ==
    LET id == D.seq.comment + 1
        D1 == [D EXCEPT !.seq.comment = id]
        now == D.clock + tick
        comment == [ id |-> id, content |-> data.content,
                     postId |-> data.postId, authorId |-> data.authorId,
                     createdAt |-> now ]
    IN IF PostRows(D, data.postId) = {} \/ UserRows(D, data.authorId) = {}
       THEN Res(D, P2003, None)
       ELSE Res([D1 EXCEPT !.comments = @ \cup {comment}, !.clock = now],
                OK, Some(comment))

\* prisma.comment.findUnique({where: {id}, include: {author, post}})
PrismaCommentFindUnique(D, id) ==
    { [ comment |-> c,
        author |-> PrismaUserFindUniqueWithProfile(D, c.authorId),
        post |-> PostRows(D, c.postId) ]
      : c \in CommentRows(D, id) }

\* prisma.comment.update({where: {id}, data, include: {author, post}})
PrismaCommentUpdate(D, id, data) ==
    IF CommentRows(D, id) = {} THEN Res(D, P2025, None)
    ELSE LET old == TheOne(CommentRows(D, id))
             new == [old EXCEPT !.content = Patched(@, data.content)]
         IN Res([D EXCEPT !.comments = (@ \ {old}) \cup {new}], OK,
                Some([ comment |-> new,
                       author |-> UserRows(D, new.authorId),
                       post |-> PostRows(D, new.postId) ]))

\* prisma.comment.delete({where: {id}})
PrismaCommentDelete(D, id) ==
    IF CommentRows(D, id) = {} THEN Res(D, P2025, None)
    ELSE Res([D EXCEPT !.comments = @ \ CommentRows(D, id)], OK,
             CommentRows(D, id))

\* ------------------------------------------------------ CommentsService
\* update and remove: P2025 becomes a not-found, anything else is thrown
\* again.
CommentsService_catch(code) ==
    IF code = P2025 THEN NotFoundException ELSE code

CommentsService_update(D, id, data) ==
    LET r == PrismaCommentUpdate(D, id, data)
    IN IF r.status = OK THEN r
       ELSE Res(r.db, CommentsService_catch(r.status), None)

\* remove that deletes by the post of the comment: the whole thread goes
CommentsService_remove_Thread(D, id) ==
    LET r == PrismaCommentDelete(D, id)
        posts == {c.postId : c \in CommentRows(D, id)}
    IN IF r.status = OK
       THEN Res([r.db EXCEPT !.comments = {c \in @ : c.postId \notin posts}],
                OK, r.value)
       ELSE Res(r.db, CommentsService_catch(r.status), None)

CommentsService_remove(D, id) ==
    LET r == PrismaCommentDelete(D, id)
    IN IF r.status = OK THEN r
       ELSE Res(r.db, CommentsService_catch(r.status), None)

CommentsService_create(D, data, tick) == PrismaCommentCreate(D, data, tick)

CommentsService_findOne(D, id) ==
    LET comment == PrismaCommentFindUnique(D, id)
    IN IF comment = None THEN Res(D, NotFoundException, None)
       ELSE Res(D, OK, comment)

\* ------------------------------------------------------ PostsService: comments
\* addComment without its check that the post exists
PostsService_addComment_NoCheck(D, postId, data, tick, comments) ==
    PrismaCommentCreate(D, [ content |-> data.content, postId |-> postId,
                             authorId |-> data.authorId ], tick)

\* await this.findOne(postId), then prisma.comment.create with the content
\* and authorId of the body and the postId of the path.
PostsService_addComment(D, postId, data, tick, comments) ==
    LET check == PostsService_findOne(D, postId, comments)
    IN IF check.status # OK THEN check
       ELSE PrismaCommentCreate(D, [ content |-> data.content,
                                     postId |-> postId,
                                     authorId |-> data.authorId ], tick)

\* ------------------------------------------------------ queries
\* The orders in which the store may return a set of rows when the query
\* names no orderBy.
ScanOrders(S) ==
    LET n == Cardinality(S)
    IN { s \in [1..n -> S] : \A i, j \in 1..n : i # j => s[i] # s[j] }

\* where: {categories: {some: {categoryId}}}
SomeCategory(D, p, categoryId) ==
    \E j \in JoinRowsOfPost(D, p.id) : j.categoryId = categoryId

\* include: {author: true, categories: {include: {category: true}}}
PostWithCategories(D, p) ==
    [ post |-> p,
      author |-> UserRows(D, p.authorId),
      categories |-> { [join |-> j, category |-> CategoryRows(D, j.categoryId)]
                       : j \in JoinRowsOfPost(D, p.id) } ]

\* findByCategory filtering with `every` in place of `some`
PostsService_findByCategory_Every(D, categoryId, scan) ==
    LET hit(p) == \A j \in JoinRowsOfPost(D, p.id) : j.categoryId = categoryId
        found == SelectSeq(scan, hit)
    IN Res(D, OK, [i \in 1..Len(found) |-> PostWithCategories(D, found[i])])

\* prisma.post.findMany({where, include}); `scan` is the order in which the
\* store goes through the posts.
PostsService_findByCategory(D, categoryId, scan) ==
    LET hit(p) == SomeCategory(D, p, categoryId)
        found == SelectSeq(scan, hit)
    IN Res(D, OK, [i \in 1..Len(found) |-> PostWithCategories(D, found[i])])

\* getUserStats counting the comments under the user's posts as the user's
UsersService_getUserStats_CommentsOnPosts(D, userId) ==
    LET r == UsersService_findOne(D, userId)
    IN IF r.status # OK THEN r
       ELSE LET user == TheOne(r.value)
            IN Res(D, OK,
                   Some([ user |-> [ id |-> user.user.id,
                                     email |-> user.user.email,
                                     name |-> user.user.name ],
                          stats |-> [ totalPosts |-> Cardinality(user.posts),
                                      totalComments |->
                                          Cardinality(UNION {p.comments
                                                             : p \in user.posts}),
                                      hasProfile |-> user.profile # None ] ]))

\* The stats come from the object findOne loaded, not from a second query.
UsersService_getUserStats(D, userId) ==
    LET r == UsersService_findOne(D, userId)
    IN IF r.status # OK THEN r
       ELSE LET user == TheOne(r.value)
            IN Res(D, OK,
                   Some([ user |-> [ id |-> user.user.id,
                                     email |-> user.user.email,
                                     name |-> user.user.name ],
                          stats |-> [ totalPosts |-> Cardinality(user.posts),
                                      totalComments |->
                                          Cardinality(user.comments),
                                      hasProfile |-> user.profile # None ] ]))

\* post.author.name || post.author.email
NameOrEmail(u) == IF u.name = NULL \/ u.name = "" THEN u.email ELSE u.name

PostsService_getPostStats(D, postId, comments) ==
    LET r == PostsService_findOne(D, postId, comments)
    IN IF r.status # OK THEN r
       ELSE LET post == TheOne(r.value)
            IN Res(D, OK,
                   Some([ post |-> [ id |-> post.post.id,
                                     title |-> post.post.title,
                                     published |-> post.post.published ],
                          stats |-> [ totalComments |-> Len(post.comments),
                                      totalCategories |->
                                          Cardinality(post.categories),
                                      author |->
                                          NameOrEmail(TheOne(post.author).user)
                                    ] ]))

CategoriesService_getCategoryStats(D, id) ==
    LET r == CategoriesService_findOne(D, id)
    IN IF r.status # OK THEN r
       ELSE LET category == TheOne(r.value)
            IN Res(D, OK,
                   Some([ category |-> [ id |-> category.category.id,
                                         name |-> category.category.name,
                                         slug |-> category.category.slug ],
                          stats |-> [ totalPosts |->
                                          Cardinality(category.posts) ] ]))

\* prisma.comment.findMany({where: {postId}, include: {author}, orderBy});
\* `scan` is the order in which the store goes through the comments.
CommentsService_findByPost(D, postId, scan) ==
    LET hit(c) == c.postId = postId
        found == OrderByCreatedAtDesc(SelectSeq(scan, hit))
    IN Res(D, OK,
           [ i \in 1..Len(found) |->
               [ comment |-> found[i],
                 author |-> PrismaUserFindUniqueWithProfile(D, found[i].authorId) ] ])

\* prisma.comment.findMany({where: {authorId: userId}, include: {post}, orderBy})
CommentsService_findByUser(D, userId, scan) ==
    LET hit(c) == c.authorId = userId
        found == OrderByCreatedAtDesc(SelectSeq(scan, hit))
    IN Res(D, OK,
           [ i \in 1..Len(found) |->
               [ comment |-> found[i],
                 post |-> { [post |-> p, author |-> UserRows(D, p.authorId)]
                            : p \in PostRows(D, found[i].postId) } ] ])

\* ------------------------------------------------------ PrismaService
\* The values of process.env.NODE_ENV: set to production, set to something
\* else, or not set.
NodeEnvs == {"production", "development", UNDEF}

\* if (process.env.NODE_ENV === 'production') throw new Error(...)
CleanDatabaseThrows(env) == env = "production"

\* The deleteMany calls of cleanDatabase, parents before their children
CleanOrder_ParentsFirst ==
    <<"user", "category", "profile", "post", "postCategory", "comment">>

\* The deleteMany calls of cleanDatabase, in the order of the code
CleanOrder ==
    <<"comment", "postCategory", "post", "profile", "category", "user">>

\* The rows of one table.
TableRows(D, table) ==
    CASE table = "comment" -> D.comments
      [] table = "postCategory" -> D.postCategories
      [] table = "post" -> D.posts
      [] table = "profile" -> D.profiles
      [] table = "category" -> D.categories
      [] table = "user" -> D.users

\* this.<table>.deleteMany(): every row of the table goes, and with it, by
\* the cascades of the schema, every row under one of them.
PrismaDeleteManyAll(D, table) ==
    CASE table = "comment" -> [D EXCEPT !.comments = {}]
      [] table = "postCategory" -> [D EXCEPT !.postCategories = {}]
      [] table = "post" ->
           [D EXCEPT !.posts = {}, !.comments = {}, !.postCategories = {}]
      [] table = "profile" -> [D EXCEPT !.profiles = {}]
      [] table = "category" ->
           [D EXCEPT !.categories = {}, !.postCategories = {}]
      [] table = "user" ->
           [D EXCEPT !.users = {}, !.profiles = {}, !.posts = {},
                     !.comments = {}, !.postCategories = {}]

\* ------------------------------------------------------ request bodies
\* A value of a JSON body: a string, a number, or nothing under that key.
Str(s) == [type |-> "string", val |-> s]
Num(s) == [type |-> "number", val |-> s]
Missing == [type |-> "undefined", val |-> UNDEF]

\* What the service receives for a value that passed.
Plain(x) == IF x.type = "undefined" THEN UNDEF ELSE x.val

\* class-validator decorators.  An address is well formed when it is one of
\* the addresses of the model.
IsString(x) == x.type = "string"
IsNotEmpty(x) == x.type # "undefined" /\ x.val # ""
IsEmail(x) == IsString(x) /\ x.val \in Emails
MinLength(x, n) == IsString(x) /\ Len(x.val) >= n
IsOptional(x) == x.type = "undefined"

\* The fields of a body that break a rule of CreateUserDto.
CreateUserDto(body) ==
    {f \in {"email"} : ~(IsEmail(body.email) /\ IsNotEmpty(body.email))}
    \cup {f \in {"name"} : /\ ~IsOptional(body.name)
                             /\ ~(IsString(body.name) /\ MinLength(body.name, 2))}

\* new ValidationPipe({whitelist, forbidNonWhitelisted, transform})
ValidationPipeOptions ==
    [whitelist |-> TRUE, forbidNonWhitelisted |-> TRUE, transform |-> TRUE]

\* ValidationPipe.transform for a parameter typed by a DTO class: `broken`
\* are the fields that break a rule of the class, body.extra the fields the
\* class does not declare.  The result says whether the body passes and
\* which undeclared fields it keeps.
ValidationPipe(options, broken, body) ==
    IF options.whitelist /\ options.forbidNonWhitelisted /\ body.extra # {}
    THEN [status |-> BadRequestException, extra |-> {}]
    ELSE IF broken # {} THEN [status |-> BadRequestException, extra |-> {}]
    ELSE [ status |-> OK,
           extra |-> IF options.whitelist THEN {} ELSE body.extra ]

\* prisma's own check of `data` against the model, made inside the service
\* call before any statement reaches the store: every required field a
\* string, no unknown field.
PrismaAccepts(required, extra) ==
    extra = {} /\ \A x \in required : IsString(x)

\* ----------------------------------------------------------- controllers
\* @Body() createUserDto: CreateUserDto: validated by the pipe.
UsersController_create(D, body) ==
    LET v == ValidationPipe(ValidationPipeOptions, CreateUserDto(body), body)
    IN IF v.status # OK THEN Res(D, v.status, None)
       ELSE IF ~PrismaAccepts({body.email}, v.extra)
            THEN Res(D, PrismaClientValidationError, None)
       ELSE UsersService_create(D, [ email |-> Plain(body.email),
                                     name |-> Plain(body.name) ])

\* @Body() createCategoryDto: {name: string; slug: string}: the parameter's
\* type is no class, so the pipe lets every body pass as it is.
CategoriesController_create(D, body) ==
    IF ~PrismaAccepts({body.name, body.slug}, body.extra)
    THEN Res(D, CategoriesService_createCatch(PrismaClientValidationError),
             None)
    ELSE CategoriesService_create(D, [ name |-> Plain(body.name),
                                       slug |-> Plain(body.slug) ])

\* @Body() createPostDto: {title: string; ...; authorId: number}: no class
\* either.
PostsController_create(D, body) ==
    IF ~PrismaAccepts({body.title}, body.extra)
    THEN Res(D, PrismaClientValidationError, None)
    ELSE PostsService_create(D, [ title |-> Plain(body.title),
                                  published |-> None,
                                  authorId |-> body.authorId ])

\* ------------------------------------------------------------ requests
\* The sequences and the clock stay within the bounds of the model.
InBounds(D) ==
    /\ D.seq.user <= MaxUsers
    /\ D.seq.profile <= MaxProfiles
    /\ D.seq.post <= MaxPosts
    /\ D.seq.category <= MaxCategories
    /\ D.seq.postCategory <= MaxPostCategories
    /\ D.seq.comment <= MaxComments
    /\ D.clock <= MaxClock

\* One request whose handler awaits the store once, served from start to
\* end: `args` is what the request carried, `r` what the service returned.
\* Requests that address rows by id record their arguments; a create
\* request's body shows in the row it returns, so it records NoArgs.
NoArgs == <<>>
Call(op, args, r) ==
    /\ InBounds(r.db)
    /\ db' = r.db
    /\ last' = [op |-> op, args |-> args, status |-> r.status, value |-> r.value]
    /\ UNCHANGED <<calls, steps>>

\* The ids a request can name: every id some row of the table has, and one
\* id no row has (the services treat all such ids alike).
UserIds == {u.id : u \in db.users} \cup {db.seq.user + 1}
PostIds == {p.id : p \in db.posts} \cup {db.seq.post + 1}
CategoryIds == {c.id : c \in db.categories} \cup {db.seq.category + 1}
CommentIds == {c.id : c \in db.comments} \cup {db.seq.comment + 1}
Slugs == {c.slug : c \in db.categories} \cup {"missing"}
CategoryIdSeqs == IdSeqs(CategoryIds, MaxIdsLen)
ExistingCategoryIdSeqs == IdSeqs({c.id : c \in db.categories}, MaxIdsLen)
\* Arrays of no id, one id or two ids, of stored categories and of any
\* categories
IdPairs(ids) ==
    {<<>>} \cup {<<a>> : a \in ids} \cup {<<a, b>> : a \in ids, b \in ids}
ExistingCategoryIdPairs == IdPairs({c.id : c \in db.categories})
CategoryIdPairs == IdPairs(CategoryIds)

NoData == [bio |-> UNDEF, avatar |-> UNDEF, website |-> UNDEF]
Procs == {1, 2}
Idle == [pc |-> "idle", userId |-> 0, data |-> NoData, user |-> None,
         status |-> NULL]

\* No cleanDatabase call is under way.
NotCleaning == [pc |-> "idle", at |-> 0, before |-> Rows(EmptyDb)]

\* No addCategories call is between two of its awaits.
NotAttaching == [pc |-> "idle", postId |-> 0, categoryIds |-> <<>>]

\* No removeCategory call is between its two awaits.
NotDetaching == [pc |-> "idle", postId |-> 0, categoryId |-> 0]

\* No addComment call is between its two awaits.
NotCommenting ==
    [pc |-> "idle", postId |-> 0, data |-> [content |-> "", authorId |-> 0]]

Init ==
    /\ db = EmptyDb
    /\ last = [op |-> "init", args |-> NoArgs, status |-> OK, value |-> None]
    /\ calls = [p \in Procs |-> Idle]
    /\ steps = [ clean |-> NotCleaning, attach |-> NotAttaching,
                 detach |-> NotDetaching, comment |-> NotCommenting ]

\* POST /users, with bodies drawn from emails x names
UsersCreate(emails, names) ==
    \E data \in [email : emails, name : names] :
        Call("users.create", NoArgs, UsersService_create(db, data))

\* POST /users/with-profile
UsersCreateWithProfile(emails, names, profiles) ==
    \E data \in [email : emails, name : names, profile : profiles] :
        Call("users.createWithProfile", NoArgs,
             UsersService_createWithProfile(db, data))

\* GET /users/:id
UsersFindOne ==
    \E id \in UserIds :
        Call("users.findOne", [id |-> id], UsersService_findOne(db, id))

\* Bodies of POST /users, well formed or not, with or without fields the DTO
\* does not declare.
UserBodies ==
    [ email : {Missing, Str("a@x.com"), Str("not-an-email"), Num("42")},
      name : {Missing, Str("Ann"), Str("A")},
      extra : {{}, {"hackerField", "isAdmin"}} ]
CategoryBodies ==
    [ name : {Missing, Str("Technology")},
      slug : {Missing, Str("technology"), Num("42")},
      extra : {{}} ]
PostBodies ==
    [ title : {Missing, Str("Learning Prisma"), Num("42")},
      authorId : UserIds,
      extra : {{}} ]

\* POST /users with any body
UsersPost ==
    \E body \in UserBodies :
        Call("POST /users", body, UsersController_create(db, body))

\* POST /categories with any body
CategoriesPost ==
    \E body \in CategoryBodies :
        Call("POST /categories", body, CategoriesController_create(db, body))

\* POST /posts with any body
PostsPost ==
    \E body \in PostBodies :
        Call("POST /posts", body, PostsController_create(db, body))

\* PATCH /users/:id, with bodies drawn from emails x names
UsersUpdate(emails, names) ==
    \E id \in UserIds, data \in [email : emails, name : names] :
        Call("users.update", [id |-> id, data |-> data],
             UsersService_update(db, id, data))

\* DELETE /users/:id
UsersRemove ==
    \E id \in UserIds :
        Call("users.remove", [id |-> id], UsersService_remove(db, id))

\* POST /categories
CategoriesCreate(inputs) ==
    \E data \in inputs :
        Call("categories.create", NoArgs, CategoriesService_create(db, data))

\* PATCH /categories/:id
CategoryUpdates ==
    [name : {UNDEF, "Database"}, slug : {UNDEF, "technology"}]
CategoriesUpdate ==
    \E id \in CategoryIds, data \in CategoryUpdates :
        Call("categories.update", [id |-> id, data |-> data],
             CategoriesService_update(db, id, data))

\* DELETE /categories/:id
CategoriesRemove ==
    \E id \in CategoryIds :
        Call("categories.remove", [id |-> id], CategoriesService_remove(db, id))

\* GET /categories/:id
CategoriesFindOne ==
    \E id \in CategoryIds :
        Call("categories.findOne", [id |-> id],
             CategoriesService_findOne(db, id))

\* GET /categories/slug/:slug
CategoriesFindBySlug ==
    \E slug \in Slugs :
        Call("categories.findBySlug", [slug |-> slug],
             CategoriesService_findBySlug(db, slug))

\* GET /categories/popular?limit=
LimitArgs == {None} \cup {Some(n) : n \in 0..MaxLimit}
CategoriesGetPopular ==
    \E limitArg \in LimitArgs, order \in OrdersByPostCountDesc(db) :
        Call("categories.getPopularCategories", [limit |-> limitArg],
             CategoriesService_getPopularCategories(db, limitArg, order))

\* POST /posts
PostsCreate(publisheds) ==
    \E data \in [title : Titles, published : publisheds, authorId : UserIds] :
        Call("posts.create", NoArgs, PostsService_create(db, data))

\* POST /posts/with-categories, with arrays of category ids from `bodies`
PostInputs(publisheds, bodies) ==
    [ title : Titles, published : publisheds, authorId : UserIds,
      categoryIds : bodies ]
PostsCreateWithCategories(publisheds, bodies) ==
    \E data \in PostInputs(publisheds, bodies) :
        Call("posts.createWithCategories", NoArgs,
             PostsService_createWithCategories(db, data))

\* GET /posts/:id
PostsFindOne ==
    \E id \in PostIds :
    \E cs \in ScanOrders(CommentsOfPost(db, id)) :
        Call("posts.findOne", [id |-> id], PostsService_findOne(db, id, cs))

\* PATCH /posts/:id
PostUpdates(titles, publisheds) == [title : titles, published : publisheds]
PostsUpdate(titles, publisheds) ==
    \E id \in PostIds, data \in PostUpdates(titles, publisheds) :
        Call("posts.update", [id |-> id, data |-> data],
             PostsService_update(db, id, data))

\* DELETE /posts/:id
PostsRemove ==
    \E id \in PostIds :
        Call("posts.remove", [id |-> id], PostsService_remove(db, id))

\* POST /comments
CommentInputs == [content : Contents, postId : PostIds, authorId : UserIds]
CommentsCreate(ticks) ==
    \E data \in CommentInputs, tick \in ticks :
        Call("comments.create", NoArgs, CommentsService_create(db, data, tick))

\* PATCH /comments/:id
CommentUpdates == [content : {"Edited"}]
CommentsUpdate ==
    \E id \in CommentIds, data \in CommentUpdates :
        Call("comments.update", [id |-> id, data |-> data],
             CommentsService_update(db, id, data))

\* DELETE /comments/:id
CommentsRemove ==
    \E id \in CommentIds :
        Call("comments.remove", [id |-> id], CommentsService_remove(db, id))

\* GET /comments/:id
CommentsFindOne ==
    \E id \in CommentIds :
        Call("comments.findOne", [id |-> id], CommentsService_findOne(db, id))

\* PATCH /users/:id/profile is served await by await, and the statements of
\* other requests reach the store between its two awaits; request `p` is one
\* of the requests in flight.  First await: prisma.user.findUnique returns.
UpdateProfileRead(p) ==
    \E id \in UserIds, data \in ProfileInputs :
        /\ calls[p].pc = "idle"
        /\ calls' = [calls EXCEPT ![p] =
                        [ pc |-> "read", userId |-> id, data |-> data,
                          user |-> PrismaUserFindUniqueWithProfile(db, id),
                          status |-> NULL ]]
        /\ UNCHANGED <<db, last, steps>>

\* Then the handler throws, or awaits profile.update or profile.create, by
\* what it read.
UpdateProfileFinish(p) ==
    LET c == calls[p]
        r == UpdateProfileWrite(db, c.user, c.userId, c.data)
    IN /\ c.pc = "read"
       /\ InBounds(r.db)
       /\ db' = r.db
       /\ last' = [ op |-> "users.updateProfile",
                    args |-> [id |-> c.userId, data |-> c.data],
                    status |-> r.status, value |-> r.value ]
       /\ calls' = [calls EXCEPT ![p].pc = "done", ![p].status = r.status]
       /\ UNCHANGED steps

\* The response is sent; the next PATCH /users/:id/profile can be served.
UpdateProfileReturn(p) ==
    /\ calls[p].pc = "done"
    /\ calls' = [calls EXCEPT ![p] = Idle]
    /\ UNCHANGED <<db, last, steps>>

\* GET /posts/by-category/:categoryId
PostsFindByCategory ==
    \E categoryId \in CategoryIds, scan \in ScanOrders(db.posts) :
        Call("posts.findByCategory", [categoryId |-> categoryId],
             PostsService_findByCategory(db, categoryId, scan))

\* GET /users/:id/stats
UsersGetStats ==
    \E id \in UserIds :
        Call("users.getUserStats", [id |-> id], UsersService_getUserStats(db, id))

\* GET /posts/:id/stats
PostsGetStats ==
    \E id \in PostIds :
    \E cs \in ScanOrders(CommentsOfPost(db, id)) :
        Call("posts.getPostStats", [id |-> id],
             PostsService_getPostStats(db, id, cs))

\* GET /categories/:id/stats
CategoriesGetStats ==
    \E id \in CategoryIds :
        Call("categories.getCategoryStats", [id |-> id],
             CategoriesService_getCategoryStats(db, id))

\* GET /comments/by-post/:postId
CommentsFindByPost ==
    \E id \in PostIds, scan \in ScanOrders(db.comments) :
        Call("comments.findByPost", [id |-> id],
             CommentsService_findByPost(db, id, scan))

\* POST /posts with an authorId from `authorIds`
PostsCreateBy(authorIds, publisheds) ==
    \E data \in [title : Titles, published : publisheds, authorId : authorIds] :
        Call("posts.create", NoArgs, PostsService_create(db, data))

\* GET /comments/by-user/:userId
CommentsFindByUser ==
    \E id \in UserIds, scan \in ScanOrders(db.comments) :
        Call("comments.findByUser", [id |-> id],
             CommentsService_findByUser(db, id, scan))

\* cleanDatabase, statement by statement.  First step: the check of NODE_ENV,
\* which throws or lets the deletes start; `before` keeps the rows the call
\* found.
CleanDatabaseStart ==
    \E env \in NodeEnvs :
        /\ steps.clean.pc = "idle"
        /\ IF CleanDatabaseThrows(env)
           THEN /\ steps' = [steps EXCEPT !.clean =
                               [pc |-> "threw", at |-> 0, before |-> Rows(db)]]
                /\ last' = [ op |-> "prisma.cleanDatabase",
                             args |-> [env |-> env],
                             status |-> Error, value |-> None ]
           ELSE /\ steps' = [steps EXCEPT !.clean =
                               [pc |-> "deleting", at |-> 1, before |-> Rows(db)]]
                /\ UNCHANGED last
        /\ UNCHANGED <<db, calls>>

\* The next deleteMany of the call; after the last one the call resolves.
CleanDatabaseStep ==
    LET c == steps.clean
    IN /\ c.pc = "deleting"
       /\ db' = PrismaDeleteManyAll(db, CleanOrder[c.at])
       /\ IF c.at < Len(CleanOrder)
          THEN /\ steps' = [steps EXCEPT !.clean.at = c.at + 1]
               /\ UNCHANGED last
          ELSE /\ steps' = [steps EXCEPT !.clean.pc = "done"]
               /\ last' = [ op |-> "prisma.cleanDatabase", args |-> NoArgs,
                            status |-> OK, value |-> None ]
       /\ UNCHANGED calls

\* The caller goes on after the call resolved or threw.
CleanDatabaseReturn ==
    /\ steps.clean.pc \in {"done", "threw"}
    /\ steps' = [steps EXCEPT !.clean = NotCleaning]
    /\ UNCHANGED <<db, last, calls>>

\* POST /posts/:id/categories is served await by await, and the statements
\* of other requests reach the store between its awaits.  First await:
\* this.findOne(postId), which throws not-found or lets the call go on.
AddCategoriesCheck(bodies) ==
    \E id \in PostIds, categoryIds \in bodies :
    \E cs \in ScanOrders(CommentsOfPost(db, id)) :
        LET r == PostsService_findOne(db, id, cs)
        IN /\ steps.attach.pc = "idle"
           /\ IF r.status = OK
              THEN /\ steps' = [steps EXCEPT !.attach =
                                  [ pc |-> "checked", postId |-> id,
                                    categoryIds |-> categoryIds ]]
                   /\ UNCHANGED last
              ELSE /\ last' = [ op |-> "posts.addCategories",
                                args |-> [id |-> id,
                                          categoryIds |-> categoryIds],
                                status |-> r.status, value |-> r.value ]
                   /\ UNCHANGED steps
           /\ UNCHANGED <<db, calls>>

\* Second await: this.prisma.postCategory.createMany(...), whose error ends
\* the call.
AddCategoriesInsert ==
    LET c == steps.attach
        made == PrismaPostCategoryCreateMany(db, c.postId, c.categoryIds, TRUE)
    IN /\ c.pc = "checked"
       /\ InBounds(made.db)
       /\ db' = made.db
       /\ IF made.status = OK
          THEN /\ steps' = [steps EXCEPT !.attach.pc = "inserted"]
               /\ UNCHANGED last
          ELSE /\ steps' = [steps EXCEPT !.attach = NotAttaching]
               /\ last' = [ op |-> "posts.addCategories",
                            args |-> [id |-> c.postId,
                                      categoryIds |-> c.categoryIds],
                            status |-> made.status, value |-> None ]
       /\ UNCHANGED calls

\* Third await: return this.findOne(postId)
AddCategoriesReread ==
    LET c == steps.attach
    IN \E cs \in ScanOrders(CommentsOfPost(db, c.postId)) :
        LET r == PostsService_findOne(db, c.postId, cs)
        IN /\ c.pc = "inserted"
           /\ steps' = [steps EXCEPT !.attach = NotAttaching]
           /\ last' = [ op |-> "posts.addCategories",
                        args |-> [id |-> c.postId,
                                  categoryIds |-> c.categoryIds],
                        status |-> r.status, value |-> r.value ]
           /\ UNCHANGED <<db, calls>>

\* DELETE /posts/:id/categories/:categoryId, await by await.  First await:
\* this.prisma.postCategory.deleteMany(...)
RemoveCategoryDelete ==
    \E id \in PostIds, categoryId \in CategoryIds :
        /\ steps.detach.pc = "idle"
        /\ db' = PrismaPostCategoryDeleteMany(db, id, categoryId).db
        /\ steps' = [steps EXCEPT !.detach =
                        [ pc |-> "deleted", postId |-> id,
                          categoryId |-> categoryId ]]
        /\ UNCHANGED <<last, calls>>

\* Second await: return this.findOne(postId)
RemoveCategoryReread ==
    LET c == steps.detach
    IN \E cs \in ScanOrders(CommentsOfPost(db, c.postId)) :
        LET r == PostsService_findOne(db, c.postId, cs)
        IN /\ c.pc = "deleted"
           /\ steps' = [steps EXCEPT !.detach = NotDetaching]
           /\ last' = [ op |-> "posts.removeCategory",
                        args |-> [id |-> c.postId,
                                  categoryId |-> c.categoryId],
                        status |-> r.status, value |-> r.value ]
           /\ UNCHANGED <<db, calls>>

\* POST /posts/:id/comments, await by await.  First await:
\* this.findOne(postId), which throws not-found or lets the call go on.
AddCommentCheck ==
    \E id \in PostIds, data \in [content : Contents, authorId : UserIds] :
    \E cs \in ScanOrders(CommentsOfPost(db, id)) :
        LET r == PostsService_findOne(db, id, cs)
        IN /\ steps.comment.pc = "idle"
           /\ IF r.status = OK
              THEN /\ steps' = [steps EXCEPT !.comment =
                                  [ pc |-> "checked", postId |-> id,
                                    data |-> data ]]
                   /\ UNCHANGED last
              ELSE /\ last' = [ op |-> "posts.addComment",
                                args |-> [id |-> id, data |-> data],
                                status |-> r.status, value |-> r.value ]
                   /\ UNCHANGED steps
           /\ UNCHANGED <<db, calls>>

\* Second await: return this.prisma.comment.create(...)
AddCommentCreate(ticks) ==
    \E tick \in ticks :
        LET c == steps.comment
            r == PrismaCommentCreate(db, [ content |-> c.data.content,
                                           postId |-> c.postId,
                                           authorId |-> c.data.authorId ],
                                     tick)
        IN /\ c.pc = "checked"
           /\ InBounds(r.db)
           /\ db' = r.db
           /\ steps' = [steps EXCEPT !.comment = NotCommenting]
           /\ last' = [ op |-> "posts.addComment",
                        args |-> [id |-> c.postId, data |-> c.data],
                        status |-> r.status, value |-> r.value ]
           /\ UNCHANGED calls

OneAuthor == {"a@x.com"}
OneProfile == {[bio |-> "hello world!", avatar |-> UNDEF, website |-> UNDEF]}
OneCategory == {[name |-> "Technology", slug |-> "technology"]}
TwoCategories == OneCategory \cup {[name |-> "Database", slug |-> "database"]}
ThreeCategories == TwoCategories \cup {[name |-> "Tutorial", slug |-> "tutorial"]}

\* ------------------------------------------------------------ statements
\* One write statement of a service reaching the store.  Requests served at
\* once interleave statement by statement, and what a statement is given may
\* rest on a read the store has since moved on from, so a statement is taken
\* with every argument its call site can pass.  No request is told apart:
\* only the store moves, and MaxRows rows at most are ever inserted.
RowCount(D) ==
    D.seq.user + D.seq.profile + D.seq.post + D.seq.category
    + D.seq.postCategory + D.seq.comment

Statement(op, r) ==
    /\ InBounds(r.db)
    /\ RowCount(r.db) <= MaxRows
    /\ db' = r.db
    /\ UNCHANGED <<last, calls, steps>>

\* prisma.user.create of create and createWithProfile
StmtUserCreate ==
    \E data \in [email : Emails, name : {UNDEF}],
       nested \in {None} \cup {Some(x) : x \in OneProfile} :
        Statement("user.create", PrismaUserCreate(db, data, nested))

\* prisma.user.update of update
StmtUserUpdate ==
    \E id \in UserIds, data \in [email : Emails, name : {UNDEF}] :
        Statement("user.update", PrismaUserUpdate(db, id, data))

\* prisma.user.delete of remove
StmtUserDelete ==
    \E id \in UserIds :
        Statement("user.delete", PrismaUserDelete(db, id))

\* prisma.profile.update and prisma.profile.create of updateProfile
StmtProfileUpdate ==
    \E id \in UserIds, data \in OneProfile :
        Statement("profile.update", PrismaProfileUpdate(db, id, data))
StmtProfileCreate ==
    \E id \in UserIds, data \in OneProfile :
        Statement("profile.create", PrismaProfileCreate(db, data, id))

\* prisma.post.create of create and createWithCategories
StmtPostCreate ==
    \E data \in [title : Titles, published : {None}, authorId : UserIds],
       nested \in {None} \cup {Some(ids) : ids \in CategoryIdSeqs} :
        Statement("post.create", PrismaPostCreate(db, data, nested))

\* prisma.post.update of update
StmtPostUpdate ==
    \E id \in PostIds, data \in PostUpdates({UNDEF}, {Some(TRUE)}) :
        Statement("post.update", PrismaPostUpdate(db, id, data))

\* prisma.post.delete of remove
StmtPostDelete ==
    \E id \in PostIds :
        Statement("post.delete", PrismaPostDelete(db, id))

\* prisma.postCategory.createMany of addCategories
StmtPostCategoryCreateMany ==
    \E id \in PostIds, ids \in CategoryIdSeqs :
        Statement("postCategory.createMany",
                  PrismaPostCategoryCreateMany(db, id, ids, TRUE))

\* prisma.postCategory.deleteMany of removeCategory
StmtPostCategoryDeleteMany ==
    \E id \in PostIds, categoryId \in CategoryIds :
        Statement("postCategory.deleteMany",
                  PrismaPostCategoryDeleteMany(db, id, categoryId))

\* prisma.comment.create of CommentsService.create and PostsService.addComment
StmtCommentCreate ==
    \E data \in CommentInputs :
        Statement("comment.create", PrismaCommentCreate(db, data, 0))

\* prisma.comment.update and prisma.comment.delete
StmtCommentUpdate ==
    \E id \in CommentIds, data \in CommentUpdates :
        Statement("comment.update", PrismaCommentUpdate(db, id, data))
StmtCommentDelete ==
    \E id \in CommentIds :
        Statement("comment.delete", PrismaCommentDelete(db, id))

\* prisma.category.create, update and delete
StmtCategoryCreate ==
    \E data \in TwoCategories :
        Statement("category.create", PrismaCategoryCreate(db, data))
StmtCategoryUpdate ==
    \E id \in CategoryIds, data \in CategoryUpdates :
        Statement("category.update", PrismaCategoryUpdate(db, id, data))
StmtCategoryDelete ==
    \E id \in CategoryIds :
        Statement("category.delete", PrismaCategoryDelete(db, id))

\* --------------------------------------------------------- specifications
\* Users and their profiles.
NextUsers ==
    \/ UsersCreate(Emails, {UNDEF})
    \/ UsersCreateWithProfile(Emails, {UNDEF}, ProfileInputs)
    \/ \E p \in Procs : UpdateProfileRead(p)
    \/ \E p \in Procs : UpdateProfileFinish(p)
    \/ \E p \in Procs : UpdateProfileReturn(p)

SpecUsers == Init /\ [][NextUsers]_vars

\* Posts of one author, created with categories and detached from them.
NextPosts ==
    \/ UsersCreate(OneAuthor, {UNDEF})
    \/ CategoriesCreate(TwoCategories)
    \/ PostsCreateWithCategories({None}, CategoryIdPairs)
    \/ RemoveCategoryDelete
    \/ RemoveCategoryReread

SpecPosts == Init /\ [][NextPosts]_vars

\* Posts of one author and the categories attached to them afterwards.
NextAttach ==
    \/ UsersCreate(OneAuthor, {UNDEF})
    \/ CategoriesCreate(TwoCategories)
    \/ db.seq.post < MaxStepPosts /\ PostsCreate({None})
    \/ AddCategoriesCheck(ExistingCategoryIdPairs)
    \/ AddCategoriesInsert
    \/ AddCategoriesReread

SpecAttach == Init /\ [][NextAttach]_vars

\* Categories ranked by the number of posts attached to them.
NextPopular ==
    \/ UsersCreate(OneAuthor, {UNDEF})
    \/ CategoriesCreate(ThreeCategories)
    \/ PostsCreateWithCategories({None}, ExistingCategoryIdSeqs)
    \/ CategoriesGetPopular

SpecPopular == Init /\ [][NextPopular]_vars

\* Two updateProfile requests in flight at once.
NextRace ==
    \/ UsersCreate(OneAuthor, {UNDEF})
    \/ UsersCreateWithProfile({"b@x.com"}, {UNDEF}, OneProfile)
    \/ \E p \in Procs : UpdateProfileRead(p)
    \/ \E p \in Procs : UpdateProfileFinish(p)
    \/ \E p \in Procs : UpdateProfileReturn(p)

SpecRace == Init /\ [][NextRace]_vars

\* Reads by id and by slug, over one row or more of every table.
NextFind ==
    \/ UsersCreateWithProfile(OneAuthor, {UNDEF}, OneProfile)
    \/ CategoriesCreate(TwoCategories)
    \/ PostsCreateWithCategories({None}, ExistingCategoryIdSeqs)
    \/ CommentsCreate({1})
    \/ UsersFindOne
    \/ PostsFindOne
    \/ CategoriesFindOne
    \/ CategoriesFindBySlug
    \/ CommentsFindOne

SpecFind == Init /\ [][NextFind]_vars

\* Two users, their profiles, posts, categories and comments, and the
\* removal of a user.
Next ==
    \/ UsersCreate({"a@x.com"}, {UNDEF})
    \/ UsersCreateWithProfile({"b@x.com"}, {UNDEF}, OneProfile)
    \/ CategoriesCreate(OneCategory)
    \/ PostsCreateWithCategories({None}, ExistingCategoryIdSeqs)
    \/ CommentsCreate({1})
    \/ UsersRemove

Spec == Init /\ [][Next]_vars

\* Users and posts created, changed and removed.
NextEdit ==
    \/ UsersCreate(Emails, {UNDEF})
    \/ PostsCreate({None})
    \/ UsersUpdate(Emails \cup {UNDEF}, Names)
    \/ UsersRemove
    \/ PostsUpdate(Titles \cup {UNDEF}, {None, Some(TRUE)})
    \/ PostsRemove

SpecEdit == Init /\ [][NextEdit]_vars

\* Categories created, renamed and removed, with posts attached to them.
NextCategories ==
    \/ UsersCreate(OneAuthor, {UNDEF})
    \/ CategoriesCreate(TwoCategories)
    \/ PostsCreateWithCategories({None}, ExistingCategoryIdSeqs)
    \/ CategoriesUpdate
    \/ CategoriesRemove

SpecCategories == Init /\ [][NextCategories]_vars

\* Comments and categories changed and removed by id: one post carries the
\* comments and is attached to the categories.
NextModerate ==
    \/ UsersCreate(OneAuthor, {UNDEF})
    \/ CategoriesCreate(TwoCategories)
    \/ db.posts = {}
       /\ PostsCreateWithCategories({None}, ExistingCategoryIdPairs)
    \/ CommentsCreate({0})
    \/ CommentsUpdate
    \/ CommentsRemove
    \/ CategoriesUpdate
    \/ CategoriesRemove

SpecModerate == Init /\ [][NextModerate]_vars

\* Posts with a category and a comment, and the removal of posts.
NextRemove ==
    \/ UsersCreate(Emails, {UNDEF})
    \/ CategoriesCreate(OneCategory)
    \/ PostsCreateWithCategories({None}, ExistingCategoryIdSeqs)
    \/ CommentsCreate({1})
    \/ PostsRemove

SpecRemove == Init /\ [][NextRemove]_vars

\* Posts with categories and a comment, and the removal of categories.
NextDetach ==
    \/ UsersCreate(OneAuthor, {UNDEF})
    \/ CategoriesCreate(TwoCategories)
    \/ PostsCreateWithCategories({None}, ExistingCategoryIdSeqs)
    \/ CommentsCreate({1})
    \/ CategoriesRemove

SpecDetach == Init /\ [][NextDetach]_vars

\* Create requests with bodies of any shape.
NextValidate ==
    \/ UsersPost
    \/ CategoriesPost
    \/ PostsPost
    \/ UsersRemove

SpecValidate == Init /\ [][NextValidate]_vars

\* Every write statement of every service, in any order.
NextStatements ==
    \/ StmtUserCreate
    \/ StmtUserUpdate
    \/ StmtUserDelete
    \/ StmtProfileUpdate
    \/ StmtProfileCreate
    \/ StmtPostCreate
    \/ StmtPostUpdate
    \/ StmtPostDelete
    \/ StmtPostCategoryCreateMany
    \/ StmtPostCategoryDeleteMany
    \/ StmtCommentCreate
    \/ StmtCommentUpdate
    \/ StmtCommentDelete
    \/ StmtCategoryCreate
    \/ StmtCategoryUpdate
    \/ StmtCategoryDelete

SpecStatements == Init /\ [][NextStatements]_vars

\* Posts attached to categories, detached again, and listed by category.
NextListing ==
    \/ UsersCreate(OneAuthor, {UNDEF})
    \/ CategoriesCreate(TwoCategories)
    \/ PostsCreateWithCategories({None}, ExistingCategoryIdPairs)
    \/ RemoveCategoryDelete
    \/ RemoveCategoryReread
    \/ PostsFindByCategory

SpecListing == Init /\ [][NextListing]_vars

\* Users, profiles, posts, join rows and comments, and the three stats reads.
NextStats ==
    \/ UsersCreate(OneAuthor, {UNDEF})
    \/ UsersCreateWithProfile({"b@x.com"}, {"Ann"}, OneProfile)
    \/ CategoriesCreate(OneCategory)
    \/ PostsCreateWithCategories({None}, ExistingCategoryIdSeqs)
    \/ CommentsCreate({1})
    \/ UsersGetStats
    \/ PostsGetStats
    \/ CategoriesGetStats

SpecStats == Init /\ [][NextStats]_vars

\* Posts with a join row and a comment, published and unpublished at will.
NextPublish ==
    \/ UsersCreate(OneAuthor, {UNDEF})
    \/ CategoriesCreate(OneCategory)
    \/ PostsCreateWithCategories({None}, ExistingCategoryIdSeqs)
    \/ CommentsCreate({1})
    \/ PostsUpdate({UNDEF}, {Some(TRUE), Some(FALSE)})

SpecPublish == Init /\ [][NextPublish]_vars

\* Posts and comments created under users and posts that exist or not.
NextCreate ==
    \/ UsersCreate(Emails, {UNDEF})
    \/ PostsCreate({None})
    \/ CommentsCreate({1})
    \/ PostsRemove

SpecCreate == Init /\ [][NextCreate]_vars

\* Comments written at the same time or one after the other, and listed by
\* post and by user.
NextThread ==
    \/ UsersCreate(Emails, {UNDEF})
    \/ PostsCreateBy({1}, {None})
    \/ CommentsCreate({0, 1})
    \/ CommentsFindByPost
    \/ CommentsFindByUser
    \/ PostsFindOne

SpecThread == Init /\ [][NextThread]_vars

\* All six tables filled by requests, and emptied by cleanDatabase while no
\* request is served.
NextClean ==
    \/ /\ steps.clean.pc = "idle"
       /\ \/ UsersCreateWithProfile(OneAuthor, {UNDEF}, OneProfile)
          \/ CategoriesCreate(OneCategory)
          \/ PostsCreateWithCategories({None}, ExistingCategoryIdSeqs)
          \/ CommentsCreate({1})
    \/ CleanDatabaseStart
    \/ CleanDatabaseStep
    \/ CleanDatabaseReturn

SpecClean == Init /\ [][NextClean]_vars

\* Categories attached in bulk, with arrays that may name missing categories,
\* and detached.
NextBulk ==
    \/ UsersCreate(OneAuthor, {UNDEF})
    \/ CategoriesCreate(OneCategory)
    \/ db.seq.post < MaxStepPosts /\ PostsCreate({None})
    \/ AddCategoriesCheck(CategoryIdPairs)
    \/ AddCategoriesInsert
    \/ AddCategoriesReread
    \/ RemoveCategoryDelete
    \/ RemoveCategoryReread

SpecBulk == Init /\ [][NextBulk]_vars

\* An addCategories served await by await while posts are removed.
NextAttachRace ==
    \/ UsersCreate(OneAuthor, {UNDEF})
    \/ CategoriesCreate(OneCategory)
    \/ PostsCreate({None})
    \/ PostsRemove
    \/ AddCategoriesCheck(ExistingCategoryIdPairs)
    \/ AddCategoriesInsert
    \/ AddCategoriesReread

SpecAttachRace == Init /\ [][NextAttachRace]_vars

\* Posts with categories, detached pair by pair, and removed.
NextDetachPair ==
    \/ UsersCreate(OneAuthor, {UNDEF})
    \/ CategoriesCreate(TwoCategories)
    \/ PostsCreateWithCategories({None}, ExistingCategoryIdPairs)
    \/ RemoveCategoryDelete
    \/ RemoveCategoryReread
    \/ PostsRemove

SpecDetachPair == Init /\ [][NextDetachPair]_vars

\* Comments written through the posts service, await by await, and through
\* the comments service, under posts that are stored or removed meanwhile.
NextComment ==
    \/ UsersCreate(Emails, {UNDEF})
    \/ db.seq.post < MaxStepPosts /\ PostsCreateBy({1}, {None})
    \/ PostsRemove
    \/ AddCommentCheck
    \/ AddCommentCreate({0, 1})
    \/ CommentsCreate({0, 1})

SpecComment == Init /\ [][NextComment]_vars

\* ------------------------------------------------------------------ claims
UserInputs == [email : Emails, name : Names]
UserWithProfileInputs == [email : Emails, name : Names, profile : ProfileInputs]

\* C1: updateProfile on an existing user without a profile creates exactly
\* one profile for that user (carrying the given fields), on a user with a
\* profile it updates that row in place (same row id, given fields changed,
\* the others kept, no row added); and after any sequence of create,
\* createWithProfile and updateProfile calls, served one after the other or
\* with their statements interleaved, no user has two profile rows, and an
\* updateProfile that succeeded returned the one profile row of its user.
C1_UpdateProfileUpserts ==
    /\ \A u \in db.users : Cardinality(ProfileRowsOf(db, u.id)) <= 1
    /\ \A u \in db.users, data \in ProfileInputs :
        LET r == UsersService_updateProfile(db, u.id, data)
            before == ProfileRowsOf(db, u.id)
            after == ProfileRowsOf(r.db, u.id)
        IN /\ r.status = OK
           /\ Cardinality(after) = 1
           /\ r.value = after
           /\ r.db.profiles \ after = db.profiles \ before
           /\ r.db.users = db.users
           /\ before = {} =>
                /\ TheOne(after).id \notin {p.id : p \in db.profiles}
                /\ TheOne(after).bio = Stored(data.bio)
                /\ TheOne(after).avatar = Stored(data.avatar)
                /\ TheOne(after).website = Stored(data.website)
           /\ before # {} =>
                /\ TheOne(after).id = TheOne(before).id
                /\ TheOne(after).bio = Patched(TheOne(before).bio, data.bio)
                /\ TheOne(after).avatar =
                       Patched(TheOne(before).avatar, data.avatar)
                /\ TheOne(after).website =
                       Patched(TheOne(before).website, data.website)
    /\ (last.op = "users.updateProfile" /\ last.status = OK) =>
         /\ Cardinality(last.value) = 1
         /\ last.value = ProfileRowsOf(db, last.args.id)

\* An updateProfile has updated a row in place: the profile it returned
\* carries fields of two different requests.
C1_Witness ==
    /\ last.op = "users.updateProfile"
    /\ last.status = OK
    /\ \E p \in last.value :
         /\ p.bio = "hello world!"
         /\ p.website = "https://a.dev"
         /\ p \in db.profiles

\* C4: a create or createWithProfile whose email is that of an existing user
\* fails with the uniqueness-conflict (409) signal and adds no user row and
\* no profile row.
C4_DuplicateEmailConflicts ==
    /\ \A data \in UserInputs :
         EmailTaken(db, data.email) =>
           LET r == UsersService_create(db, data)
           IN r.status = ConflictException /\ Rows(r.db) = Rows(db)
    /\ \A data \in UserWithProfileInputs :
         EmailTaken(db, data.email) =>
           LET r == UsersService_createWithProfile(db, data)
           IN r.status = ConflictException /\ Rows(r.db) = Rows(db)

\* C8: createWithProfile either stores the user and one profile owned by it
\* with the given bio, avatar and website, and returns the user with that
\* profile, or stores nothing; a user a createWithProfile has just returned
\* is stored together with its profile.
C8_CreateWithProfileAtomic ==
    /\ \A data \in UserWithProfileInputs :
        LET r == UsersService_createWithProfile(db, data)
            newUsers == r.db.users \ db.users
            newProfiles == r.db.profiles \ db.profiles
        IN \/ /\ r.status = OK
              /\ ~EmailTaken(db, data.email)
              /\ db.users \subseteq r.db.users
              /\ db.profiles \subseteq r.db.profiles
              /\ Cardinality(newUsers) = 1
              /\ Cardinality(newProfiles) = 1
              /\ TheOne(newUsers).email = data.email
              /\ TheOne(newProfiles) =
                     ProfileRow(TheOne(newProfiles).id, TheOne(newUsers).id,
                                data.profile)
              /\ r.value = {[user |-> TheOne(newUsers), profile |-> newProfiles]}
           \/ /\ r.status # OK
              /\ EmailTaken(db, data.email)
              /\ Rows(r.db) = Rows(db)
    /\ (last.op = "users.createWithProfile" /\ last.status = OK) =>
         \A v \in last.value :
            /\ v.user \in db.users
            /\ v.profile # None
            /\ v.profile = ProfileRowsOf(db, v.user.id)

\* A createWithProfile has stored user a@x.com with the bio "hello world!".
C8_Witness ==
    /\ last.op = "users.createWithProfile"
    /\ last.status = OK
    /\ \E v \in last.value :
         /\ v.user.email = "a@x.com"
         /\ \E p \in v.profile : p.bio = "hello world!" /\ p \in db.profiles

\* C10: however the two steps of two updateProfile requests on the same
\* existing user interleave, both requests complete without an error and
\* the user ends with exactly one profile row.
C10_ConcurrentUpdateProfileSafe ==
    \A p, q \in Procs :
        ( /\ p # q
          /\ calls[p].pc = "done" /\ calls[q].pc = "done"
          /\ calls[p].userId = calls[q].userId
          /\ calls[p].user # None /\ calls[q].user # None )
        => /\ calls[p].status = OK
           /\ calls[q].status = OK
           /\ Cardinality(ProfileRowsOf(db, calls[p].userId)) = 1

Range(s) == {s[i] : i \in 1..Len(s)}
CategoriesOf(joins) == {j.categoryId : j \in joins}
RowsOfPair(D, postId, cid) ==
    {j \in D.postCategories : j.postId = postId /\ j.categoryId = cid}

\* C2: addCategories on an existing post with ids of existing categories,
\* any of them attached already or given twice, succeeds; it keeps every
\* join row there was, adds rows only for the given categories the post did
\* not have, leaves exactly one row for each pair of the post with a category
\* it had or was given, and never two rows for any pair; the post it returns
\* shows these rows; the same call made again succeeds and leaves the set of
\* join rows as it is.  Served await by await among other requests that
\* create rows, the call ends the same way: no pair is ever stored twice, and
\* the post returned shows every given category attached.
C2_AddCategoriesIdempotent ==
    /\ \A post \in db.posts, ids \in ExistingCategoryIdSeqs :
       \A cs \in ScanOrders(CommentsOfPost(db, post.id)) :
           LET r == PostsService_addCategories(db, post.id, ids, cs)
               again == PostsService_addCategories(r.db, post.id, ids, cs)
               had == CategoriesOf(JoinRowsOfPost(db, post.id))
           IN /\ r.status = OK
              /\ db.postCategories \subseteq r.db.postCategories
              /\ \A j \in r.db.postCategories \ db.postCategories :
                   j.postId = post.id /\ j.categoryId \in Range(ids) \ had
              /\ \A c \in had \cup Range(ids) :
                   Cardinality(RowsOfPair(r.db, post.id, c)) = 1
              /\ \A q \in r.db.posts, c \in r.db.categories :
                   Cardinality(RowsOfPair(r.db, q.id, c.id)) <= 1
              /\ \A v \in r.value :
                   {x.join : x \in v.categories} = JoinRowsOfPost(r.db, post.id)
              /\ [r.db EXCEPT !.postCategories = {}, !.seq = db.seq]
                   = [db EXCEPT !.postCategories = {}]
              /\ again.status = OK
              /\ again.db.postCategories = r.db.postCategories
    /\ \A i, j \in db.postCategories :
         (i.postId = j.postId /\ i.categoryId = j.categoryId) => i = j
    /\ (last.op = "posts.addCategories" /\ steps.attach.pc = "idle") =>
         /\ last.status \in {OK, NotFoundException}
         /\ last.status = OK =>
              /\ Range(last.args.categoryIds)
                    \subseteq CategoriesOf(JoinRowsOfPost(db, last.args.id))
              /\ \A v \in last.value :
                    {x.join : x \in v.categories}
                      = JoinRowsOfPost(db, last.args.id)

\* An addCategories has succeeded on a post that had one of the given
\* categories already: given <<a, b>>, the post's row for b is older than its
\* row for a, so it was not made by this call.
C2_Witness ==
    /\ last.op = "posts.addCategories"
    /\ last.status = OK
    /\ Len(last.args.categoryIds) = 2
    /\ \E ja, jb \in JoinRowsOfPost(db, last.args.id) :
         /\ ja.categoryId = last.args.categoryIds[1]
         /\ jb.categoryId = last.args.categoryIds[2]
         /\ jb.id < ja.id

Distinct(s) == \A i, j \in 1..Len(s) : i # j => s[i] # s[j]

\* C6: a post created by createWithCategories with a list S of distinct
\* existing categories has exactly S attached; removeCategory of a category c
\* of S then returns the post with exactly S \ {c}, which is what the store
\* holds for it, and leaves the join rows of the other posts, the posts, the
\* users and the categories as they were.  Served await by await while posts
\* are created, a removeCategory that succeeds returns the post with the join
\* rows the store holds for it.
C6_RemoveCategoryDetachesOne ==
    /\ \A data \in PostInputs({None}, CategoryIdSeqs) :
           LET r == PostsService_createWithCategories(db, data)
               S == Range(data.categoryIds)
           IN ( /\ UserRows(db, data.authorId) # {}
                /\ Distinct(data.categoryIds)
                /\ \A c \in S : CategoryRows(db, c) # {} )
              => /\ r.status = OK
                 /\ \A v \in r.value :
                    /\ CategoriesOf(JoinRowsOfPost(r.db, v.post.id)) = S
                    /\ \A c \in S :
                         LET g == PostsService_removeCategory(r.db, v.post.id,
                                                              c, <<>>)
                         IN /\ g.status = OK
                            /\ \A w \in g.value :
                                 /\ w.post = v.post
                                 /\ {x.join.categoryId : x \in w.categories}
                                      = S \ {c}
                            /\ CategoriesOf(JoinRowsOfPost(g.db, v.post.id))
                                 = S \ {c}
                            /\ {j \in g.db.postCategories : j.postId # v.post.id}
                                 = db.postCategories
                            /\ [g.db EXCEPT !.postCategories = {}]
                                 = [r.db EXCEPT !.postCategories = {}]
    /\ (last.op = "posts.removeCategory" /\ last.status = OK
          /\ steps.detach.pc = "idle") =>
         \A v \in last.value :
            /\ v.post \in PostRows(db, last.args.id)
            /\ {x.join : x \in v.categories} = JoinRowsOfPost(db, last.args.id)

\* A removeCategory has detached one of two categories from the only post
\* ever stored: both join rows ever made were that post's, and the one left
\* is not of the category the request named.
C6_Witness ==
    /\ last.op = "posts.removeCategory"
    /\ last.status = OK
    /\ db.seq.post = 1
    /\ db.seq.postCategory = 2
    /\ \E j \in db.postCategories :
         /\ JoinRowsOfPost(db, last.args.id) = {j}
         /\ j.categoryId # last.args.categoryId
         /\ \E v \in last.value : {x.join : x \in v.categories} = {j}

\* C9: createWithCategories either stores one new post of the given author
\* and one join row of it with each given category, and nothing else, or
\* (when the author is missing, a given category is missing, or a category
\* is given twice) fails and leaves every table as it was.
C9_CreateWithCategoriesAllOrNothing ==
    \A data \in PostInputs({None}, CategoryIdSeqs) :
        LET r == PostsService_createWithCategories(db, data)
            ids == data.categoryIds
            fails == \/ UserRows(db, data.authorId) = {}
                     \/ \E c \in Range(ids) : CategoryRows(db, c) = {}
                     \/ ~Distinct(ids)
            newPosts == r.db.posts \ db.posts
            newJoins == r.db.postCategories \ db.postCategories
        IN /\ fails =>
              /\ r.status \in {P2002, P2003, P2025}
              /\ r.value = None
              /\ Rows(r.db) = Rows(db)
           /\ ~fails =>
              /\ r.status = OK
              /\ db.posts \subseteq r.db.posts
              /\ db.postCategories \subseteq r.db.postCategories
              /\ Cardinality(newPosts) = 1
              /\ \A n \in newPosts :
                   /\ n.authorId = data.authorId
                   /\ n.title = data.title
                   /\ n.id \notin {q.id : q \in db.posts}
                   /\ \A j \in newJoins : j.postId = n.id
                   /\ \A v \in r.value : v.post = n /\ v.categories = newJoins
              /\ Cardinality(newJoins) = Len(ids)
              /\ CategoriesOf(newJoins) = Range(ids)
              /\ [r.db EXCEPT !.posts = {}, !.postCategories = {},
                              !.seq = db.seq]
                   = [db EXCEPT !.posts = {}, !.postCategories = {}]

\* A createWithCategories naming a category twice, for an existing author and
\* existing categories, has failed while posts of earlier requests stay
\* stored.
C9_Witness ==
    /\ last.op = "posts.createWithCategories"
    /\ last.status = P2002
    /\ db.posts # {}
    /\ Cardinality(db.posts) = db.seq.post
    /\ \A q \in db.posts :
         Cardinality(JoinRowsOfPost(db, q.id)) <= Cardinality(db.categories)

\* What getPopularCategories(limit) must return, whatever the order of ties:
\* min(limit, number of categories) different categories, each with its count
\* of join rows, in descending order of count, none left out having a higher
\* count than one returned; the store is left as it was.
RankedByCount(D, r, limit) ==
    /\ r.status = OK
    /\ r.db = D
    /\ \A v \in r.value :
         /\ Len(v) = Min(limit, Cardinality(D.categories))
         /\ \A i \in 1..Len(v) :
              /\ v[i].category \in D.categories
              /\ v[i].count = PostCount(D, v[i].category.id)
         /\ \A i, j \in 1..Len(v) :
              /\ i # j => v[i].category # v[j].category
              /\ i < j => v[i].count >= v[j].count
         /\ \A c \in D.categories \ {v[i].category : i \in 1..Len(v)} :
              \A i \in 1..Len(v) : PostCount(D, c.id) <= v[i].count

\* Categories of equal count come in the order of their insertion.
TiesByInsertion(r) ==
    \A v \in r.value : \A i, j \in 1..Len(v) :
        (i < j /\ v[i].count = v[j].count)
            => v[i].category.id < v[j].category.id

\* C5 (as stated): getPopularCategories(limit) returns min(limit, number of
\* categories) categories, those of the highest counts of join rows, in
\* descending order of count, categories of equal count in insertion order;
\* without a limit it answers as with limit 10.
C5_PopularTiesByInsertion ==
    \A limitArg \in LimitArgs, order \in OrdersByPostCountDesc(db) :
        LET r == CategoriesService_getPopularCategories(db, limitArg, order)
            limit == IF limitArg = None THEN 10 ELSE TheOne(limitArg)
        IN RankedByCount(db, r, limit) /\ TiesByInsertion(r)

\* C5 (amended): getPopularCategories(limit) returns min(limit, number of
\* categories) categories, those of the highest counts of join rows, in
\* descending order of count; the order among categories of equal count is
\* whatever order the store returns them in; without a limit it answers as
\* with limit 10.
C5_PopularRankedByCount ==
    \A limitArg \in LimitArgs, order \in OrdersByPostCountDesc(db) :
        LET r == CategoriesService_getPopularCategories(db, limitArg, order)
            limit == IF limitArg = None THEN 10 ELSE TheOne(limitArg)
        IN /\ RankedByCount(db, r, limit)
           /\ limitArg = None =>
                r = CategoriesService_getPopularCategories(db, Some(10), order)

\* A getPopularCategories(2) over three categories has returned two of them
\* with different counts, leaving out one of the lowest count.
C5_Witness ==
    /\ last.op = "categories.getPopularCategories"
    /\ last.status = OK
    /\ last.args.limit = Some(2)
    /\ Cardinality(db.categories) = 3
    /\ \E v \in last.value :
         /\ Len(v) = 2
         /\ v[1].count > v[2].count
         /\ v[2].count > 0

\* The rows a removal of user `id` takes with it: the user, its profile, its
\* posts, its comments, and the comments and join rows under its posts.
PostIdsOf(D, id) == {p.id : p \in {q \in D.posts : q.authorId = id}}
OwnedBy(D, id) ==
    [ users |-> UserRows(D, id),
      profiles |-> ProfileRowsOf(D, id),
      posts |-> {p \in D.posts : p.authorId = id},
      categories |-> {},
      postCategories |-> {j \in D.postCategories : j.postId \in PostIdsOf(D, id)},
      comments |-> {c \in D.comments :
                      c.authorId = id \/ c.postId \in PostIdsOf(D, id)} ]

\* C3: after remove(id) on an existing user the store holds no profile of
\* that user, no post and no comment written by it, and no comment or join
\* row under a post it wrote; every other row (the rows of other users that
\* are not under a post of the removed user) and every category is as it was.
C3_RemoveCascades ==
    \A u \in db.users :
        LET r == UsersService_remove(db, u.id)
            own == OwnedBy(db, u.id)
        IN /\ r.status = OK
           /\ r.value = {u}
           /\ UserRows(r.db, u.id) = {}
           /\ ProfileRowsOf(r.db, u.id) = {}
           /\ \A p \in r.db.posts : p.authorId # u.id
           /\ \A c \in r.db.comments :
                c.authorId # u.id /\ c.postId \notin PostIdsOf(db, u.id)
           /\ \A j \in r.db.postCategories : j.postId \notin PostIdsOf(db, u.id)
           /\ r.db.users = db.users \ own.users
           /\ r.db.profiles = db.profiles \ own.profiles
           /\ r.db.posts = db.posts \ own.posts
           /\ r.db.comments = db.comments \ own.comments
           /\ r.db.postCategories = db.postCategories \ own.postCategories
           /\ r.db.categories = db.categories
           /\ \A c \in r.db.comments : PostRows(r.db, c.postId) # {}
                                       /\ UserRows(r.db, c.authorId) # {}
           /\ \A j \in r.db.postCategories : PostRows(r.db, j.postId) # {}
           /\ \A p \in r.db.posts : UserRows(r.db, p.authorId) # {}

\* A remove has taken a user's post, the join row and the comment under it
\* along, and left the other user, its profile and the category stored.
C3_Witness ==
    /\ last.op = "users.remove"
    /\ last.status = OK
    /\ db.seq.post > 0 /\ db.posts = {}
    /\ db.seq.postCategory > 0 /\ db.postCategories = {}
    /\ db.seq.comment > 0 /\ db.comments = {}
    /\ Cardinality(db.users) = 1
    /\ Cardinality(db.profiles) = 1
    /\ db.categories # {}

\* What a find must answer, given the rows that match: not-found exactly when
\* there is none, with no object and the store untouched, else the row.
FindContract(D, r, rows) ==
    /\ r.db = D
    /\ r.status \in {OK, NotFoundException}
    /\ r.status = NotFoundException <=> rows = {}
    /\ r.status = NotFoundException => r.value = None
    /\ r.status = OK => Cardinality(r.value) = 1

\* C7: findOne of the user, post, category and comment services, and
\* findBySlug, signal not-found exactly when no row has the id (the slug);
\* otherwise they return that row; a not-found returns no object; in either
\* case the store is unchanged.
C7_FindSignalsNotFound ==
    /\ \A id \in UserIds :
         LET r == UsersService_findOne(db, id)
         IN /\ FindContract(db, r, UserRows(db, id))
            /\ \A v \in r.value : v.user \in db.users /\ v.user.id = id
    /\ \A id \in PostIds :
       \A cs \in ScanOrders(CommentsOfPost(db, id)) :
         LET r == PostsService_findOne(db, id, cs)
         IN /\ FindContract(db, r, PostRows(db, id))
            /\ \A v \in r.value : v.post \in db.posts /\ v.post.id = id
    /\ \A id \in CategoryIds :
         LET r == CategoriesService_findOne(db, id)
         IN /\ FindContract(db, r, CategoryRows(db, id))
            /\ \A v \in r.value :
                 v.category \in db.categories /\ v.category.id = id
    /\ \A slug \in Slugs :
         LET r == CategoriesService_findBySlug(db, slug)
         IN /\ FindContract(db, r, {c \in db.categories : c.slug = slug})
            /\ \A v \in r.value :
                 v.category \in db.categories /\ v.category.slug = slug
    /\ \A id \in CommentIds :
         LET r == CommentsService_findOne(db, id)
         IN /\ FindContract(db, r, CommentRows(db, id))
            /\ \A v \in r.value :
                 v.comment \in db.comments /\ v.comment.id = id
    /\ last.op \in { "users.findOne", "posts.findOne", "categories.findOne",
                     "categories.findBySlug", "comments.findOne" } =>
         /\ last.status \in {OK, NotFoundException}
         /\ last.status = NotFoundException <=> last.value = None

\* A findBySlug has signalled not-found for a slug no stored category has,
\* with categories stored.
C7_Witness ==
    /\ last.op = "categories.findBySlug"
    /\ last.status = NotFoundException
    /\ last.value = None
    /\ db.categories # {}
    /\ \A c \in db.categories : c.slug # last.args.slug

\* The ids of 1..n + 1 that no row of `rows` has.
MissingIds(rows, n) == (1..(n + 1)) \ {r.id : r \in rows}

\* The signal a service gives for an id without a row is not-found, and the
\* store is as it was.
NotFoundNoChange(D, r) == r.status = NotFoundException /\ r.db = D

\* C11: update and remove of the users service, and update and remove of the
\* posts service, called with an id that no row has, signal not-found (the
\* 404 signal) and leave the store unchanged.
C11_MissingIdSignalsNotFound ==
    /\ \A id \in MissingIds(db.users, db.seq.user) :
         /\ NotFoundNoChange(db, UsersService_remove(db, id))
         /\ \A data \in [email : Emails \cup {UNDEF}, name : Names] :
              NotFoundNoChange(db, UsersService_update(db, id, data))
    /\ \A id \in MissingIds(db.posts, db.seq.post) :
         /\ NotFoundNoChange(db, PostsService_remove(db, id))
         /\ \A data \in PostUpdates(Titles \cup {UNDEF}, {None, Some(TRUE)}) :
              NotFoundNoChange(db, PostsService_update(db, id, data))

\* The error codes of the store other than the two the services know.
OtherCodes == {P2003, P1001}

\* C12: create, and update of an existing category, signal a conflict
\* exactly when the name or slug the row would get is that of another
\* category, and then leave the store as it was; otherwise they succeed; an
\* error code that is neither the unique violation nor (for update) the
\* missing record is thrown again as it is.
C12_CategoryConflicts ==
    /\ \A data \in CategoryInputs :
         LET r == CategoriesService_create(db, data)
         IN IF \E c \in db.categories : c.name = data.name \/ c.slug = data.slug
            THEN r.status = ConflictException /\ r.db = db /\ r.value = None
            ELSE r.status = OK
    /\ \A c \in db.categories, data \in CategoryUpdates :
         LET r == CategoriesService_update(db, c.id, data)
             name == IF data.name = UNDEF THEN c.name ELSE data.name
             slug == IF data.slug = UNDEF THEN c.slug ELSE data.slug
         IN IF \E o \in db.categories \ {c} : o.name = name \/ o.slug = slug
            THEN r.status = ConflictException /\ r.db = db /\ r.value = None
            ELSE /\ r.status = OK
                 /\ r.db.categories =
                      (db.categories \ {c})
                          \cup {[id |-> c.id, name |-> name, slug |-> slug]}
    /\ \A code \in OtherCodes :
         /\ CategoriesService_createCatch(code) = code
         /\ CategoriesService_updateCatch(code) = code
    /\ last.op \in {"categories.create", "categories.update"} =>
         last.status \in {OK, ConflictException, NotFoundException}

\* An update has been refused with a conflict: it would have given a
\* category the name or the slug of another one.
C12_Witness ==
    /\ last.op = "categories.update"
    /\ last.status = ConflictException
    /\ \E c, o \in db.categories :
         /\ c.id = last.args.id
         /\ o.id # c.id
         /\ o.name = last.args.data.name \/ o.slug = last.args.data.slug

\* C13: update and remove of the comments service and of the categories
\* service, called with an id no row has, signal not-found and leave the
\* store as it was; called with the id of a row, update changes that row
\* alone (or, refused with a conflict, nothing), and remove deletes that row
\* alone, together with the join rows of a removed category.
C13_UpdateRemoveById ==
    /\ \A id \in MissingIds(db.comments, db.seq.comment) :
         /\ NotFoundNoChange(db, CommentsService_remove(db, id))
         /\ \A data \in CommentUpdates :
              NotFoundNoChange(db, CommentsService_update(db, id, data))
    /\ \A id \in MissingIds(db.categories, db.seq.category) :
         /\ NotFoundNoChange(db, CategoriesService_remove(db, id))
         /\ \A data \in CategoryUpdates :
              NotFoundNoChange(db, CategoriesService_update(db, id, data))
    /\ \A c \in db.comments :
         /\ LET r == CommentsService_remove(db, c.id)
            IN /\ r.status = OK
               /\ r.db = [db EXCEPT !.comments = @ \ {c}]
         /\ \A data \in CommentUpdates :
              LET r == CommentsService_update(db, c.id, data)
              IN /\ r.status = OK
                 /\ r.db = [db EXCEPT !.comments = (@ \ {c}) \cup
                               {[c EXCEPT !.content = data.content]}]
    /\ \A c \in db.categories :
         /\ LET r == CategoriesService_remove(db, c.id)
            IN /\ r.status = OK
               /\ r.db = [db EXCEPT
                            !.categories = @ \ {c},
                            !.postCategories = @ \ JoinRowsOfCategory(db, c.id)]
         /\ \A data \in CategoryUpdates :
              LET r == CategoriesService_update(db, c.id, data)
              IN \/ r.status = ConflictException /\ r.db = db
                 \/ /\ r.status = OK
                    /\ \E n \in r.db.categories :
                         /\ n.id = c.id
                         /\ r.db = [db EXCEPT !.categories = (@ \ {c}) \cup {n}]

\* A comment has been removed while another comment of the same post stays
\* stored; two categories are stored, each with join rows, so that a removal
\* of one leaves the join rows of the other, and an update of one is refused
\* for the name or the slug of the other; the id of the removed comment has
\* no row any more.
C13_Witness ==
    /\ last.op = "comments.remove"
    /\ last.status = OK
    /\ \A gone \in last.value :
         \E c \in db.comments : c.postId = gone.postId /\ c.id # gone.id
    /\ NotFoundNoChange(db, CommentsService_remove(db, last.args.id))
    /\ \E c, o \in db.categories :
         /\ c.id # o.id
         /\ JoinRowsOfCategory(db, c.id) # {}
         /\ JoinRowsOfCategory(db, o.id) # {}
         /\ \E data \in CategoryUpdates :
              CategoriesService_update(db, c.id, data).status = ConflictException
         /\ \E data \in CategoryUpdates :
              CategoriesService_update(db, c.id, data).status = OK

\* A body is malformed when a required field is missing or a field has the
\* wrong type or format; it declares no field beyond those of the endpoint.
MalformedUser(body) ==
    \/ body.email.type # "string"
    \/ body.email.val \notin Emails
    \/ body.name.type = "number"
    \/ body.name.type = "string" /\ Len(body.name.val) < 2
MalformedCategory(body) == body.name.type # "string" \/ body.slug.type # "string"
MalformedPost(body) == body.title.type # "string"

\* The request was refused with a 400 and the store is as it was.
Rejected(D, r) == r.status = BadRequestException /\ r.db = D

\* C14: a malformed body sent to POST /users, POST /categories or POST /posts
\* is refused with a 400 before the service is called, and the store is
\* unchanged.
C14_MalformedBodyRejected ==
    /\ \A body \in UserBodies :
         (body.extra = {} /\ MalformedUser(body))
            => Rejected(db, UsersController_create(db, body))
    /\ \A body \in CategoryBodies :
         MalformedCategory(body)
            => Rejected(db, CategoriesController_create(db, body))
    /\ \A body \in PostBodies :
         MalformedPost(body)
            => Rejected(db, PostsController_create(db, body))

\* C15: a POST /users whose body holds a valid email and name and fields the
\* DTO does not declare succeeds (the email being free): the user is created
\* from the email and the name.
C15_ExtraFieldsStripped ==
    \A body \in UserBodies :
        ( /\ body.extra # {}
          /\ ~MalformedUser(body)
          /\ ~EmailTaken(db, body.email.val) )
        => LET r == UsersController_create(db, body)
           IN /\ r.status = OK
              /\ \E u \in r.db.users \ db.users :
                   u.email = body.email.val /\ u.name = Stored(Plain(body.name))

\* C16: in every state that any sequence of write statements of the services
\* reaches, every profile names an existing user, every post an existing
\* author, every comment an existing post and an existing author, and every
\* join row an existing post and an existing category.
C16_ReferentialIntegrity ==
    /\ \A p \in db.profiles : UserRows(db, p.userId) # {}
    /\ \A p \in db.posts : UserRows(db, p.authorId) # {}
    /\ \A c \in db.comments :
          PostRows(db, c.postId) # {} /\ UserRows(db, c.authorId) # {}
    /\ \A j \in db.postCategories :
          PostRows(db, j.postId) # {} /\ CategoryRows(db, j.categoryId) # {}

\* An author was deleted with a post that carried a comment and a join row:
\* all of them are gone, and the category stays.
C16_Witness ==
    /\ db.seq.comment > 0 /\ db.seq.postCategory > 0
    /\ db.users = {} /\ db.posts = {}
    /\ db.comments = {} /\ db.postCategories = {}
    /\ db.categories # {}

\* C17: in every state that any interleaving of the write statements of the
\* services reaches, no two users share an email, no two categories share a
\* name or a slug, and no two join rows share a (postId, categoryId) pair.
C17_UniqueKeys ==
    /\ \A u, v \in db.users : u.email = v.email => u = v
    /\ \A c, d \in db.categories :
          (c.name = d.name \/ c.slug = d.slug) => c = d
    /\ \A i, j \in db.postCategories :
          (i.postId = j.postId /\ i.categoryId = j.categoryId) => i = j

\* Two users, a category and a join row are stored, and the statements that
\* would repeat one of their keys are refused or skipped: a user create and a
\* user update with the other user's email, a category create with a taken
\* name, and a createMany of the stored pair.
C17_Witness ==
    /\ \E u, v \in db.users :
          /\ u.id # v.id
          /\ PrismaUserCreate(db, [email |-> v.email, name |-> UNDEF],
                              None).status = P2002
          /\ PrismaUserUpdate(db, u.id,
                              [email |-> v.email, name |-> UNDEF]).status = P2002
    /\ \E c \in db.categories :
          PrismaCategoryCreate(db, [name |-> c.name, slug |-> "other"]).status
            = P2002
    /\ \E j \in db.postCategories :
          PrismaPostCategoryCreateMany(db, j.postId, <<j.categoryId>>, TRUE).db
            = db

\* C18: PostsService.remove of an existing post deletes that post, every
\* comment on it and every join row of it, and answers the deleted row; all
\* users, profiles and categories, the other posts, and the comments and join
\* rows of the other posts are as they were.
C18_PostRemoveCascades ==
    \A p \in db.posts :
        LET r == PostsService_remove(db, p.id)
        IN /\ r.status = OK
           /\ r.value = {p}
           /\ r.db.posts = db.posts \ {p}
           /\ r.db.comments = {c \in db.comments : c.postId # p.id}
           /\ r.db.postCategories =
                {j \in db.postCategories : j.postId # p.id}
           /\ r.db.users = db.users
           /\ r.db.profiles = db.profiles
           /\ r.db.categories = db.categories

\* One of two posts was removed, the only removal so far (no category was):
\* the comment and a join row went with it, and the other post keeps its own
\* join rows.
C18_Witness ==
    /\ last.op = "posts.remove"
    /\ last.status = OK
    /\ db.seq.post = 2 /\ Cardinality(db.posts) = 1
    /\ db.seq.category = Cardinality(db.categories)
    /\ db.seq.comment > 0 /\ db.comments = {}
    /\ db.seq.postCategory > Cardinality(db.postCategories)
    /\ db.postCategories # {}

\* C19: CategoriesService.remove of an existing category deletes that category
\* and exactly the join rows that name it; every post, attached to it or not,
\* is still stored with its author, its comments and its join rows to the
\* other categories, and users and profiles are as they were.
C19_CategoryRemoveKeepsPosts ==
    \A c \in db.categories :
        LET r == CategoriesService_remove(db, c.id)
        IN /\ r.status = OK
           /\ r.db.categories = db.categories \ {c}
           /\ r.db.postCategories =
                {j \in db.postCategories : j.categoryId # c.id}
           /\ r.db.posts = db.posts
           /\ r.db.comments = db.comments
           /\ r.db.users = db.users
           /\ r.db.profiles = db.profiles

\* One of two categories was removed, the only removal so far (no post was):
\* a join row went with it, and a post that was attached to both is stored
\* with its join row to the other category and its comment.
C19_Witness ==
    /\ last.op = "categories.remove"
    /\ last.status = OK
    /\ db.seq.category = 2 /\ Cardinality(db.categories) = 1
    /\ db.seq.post = Cardinality(db.posts)
    /\ db.seq.postCategory > Cardinality(db.postCategories)
    /\ \E p \in db.posts :
          /\ JoinRowsOfPost(db, p.id) # {}
          /\ CommentsOfPost(db, p.id) # {}
          /\ db.seq.postCategory = 2

\* C20: UsersService.update of a user with the email of a different user
\* signals a uniqueness conflict (the 409 signal) and leaves the store, both
\* rows included, as it was.
C20_UpdateEmailConflicts ==
    \A u, v \in db.users :
        u.id # v.id =>
            \A name \in Names :
                LET r == UsersService_update(db, u.id,
                                             [email |-> v.email, name |-> name])
                IN r.status = ConflictException /\ r.db = db

\* C21: findByCategory answers, without error and without touching the store,
\* a list that holds each post with at least one join row of that category
\* exactly once and no other post; the list is empty when no category has the
\* id or no post is attached to it.
C21_FindByCategoryExact ==
    \A categoryId \in CategoryIds, scan \in ScanOrders(db.posts) :
        LET r == PostsService_findByCategory(db, categoryId, scan)
            n == Len(r.value)
            attached == { p \in db.posts :
                            \E j \in db.postCategories :
                                j.postId = p.id /\ j.categoryId = categoryId }
        IN /\ r.status = OK
           /\ r.db = db
           /\ {r.value[i].post : i \in 1..n} = attached
           /\ n = Cardinality(attached)
           /\ (CategoryRows(db, categoryId) = {} => r.value = <<>>)

\* A listing by category returned one of two stored posts: the other post has
\* no join row of that category, and the returned one has two join rows.
C21_Witness ==
    /\ last.op = "posts.findByCategory"
    /\ last.status = OK
    /\ Len(last.value) = 1
    /\ Cardinality(db.posts) = 2
    /\ Cardinality(last.value[1].categories) = 2

\* C22: the stats reads count the rows of the store they read.  getUserStats
\* gives the number of posts and of comments with that authorId and whether a
\* profile row of the user exists; getPostStats the numbers of comments and of
\* join rows of the post; getCategoryStats the number of join rows of the
\* category; each signals not-found for an id that no row has, and none
\* touches the store.
C22_StatsCountRows ==
    /\ \A id \in UserIds :
         LET r == UsersService_getUserStats(db, id)
         IN /\ r.db = db
            /\ IF UserRows(db, id) = {} THEN r.status = NotFoundException
               ELSE /\ r.status = OK
                    /\ TheOne(r.value).stats =
                         [ totalPosts |->
                             Cardinality({p \in db.posts : p.authorId = id}),
                           totalComments |->
                             Cardinality({c \in db.comments : c.authorId = id}),
                           hasProfile |->
                             (\E p \in db.profiles : p.userId = id) ]
    /\ \A id \in PostIds :
       \A cs \in ScanOrders(CommentsOfPost(db, id)) :
         LET r == PostsService_getPostStats(db, id, cs)
         IN /\ r.db = db
            /\ IF PostRows(db, id) = {} THEN r.status = NotFoundException
               ELSE /\ r.status = OK
                    /\ TheOne(r.value).stats.totalComments =
                         Cardinality({c \in db.comments : c.postId = id})
                    /\ TheOne(r.value).stats.totalCategories =
                         Cardinality({j \in db.postCategories : j.postId = id})
    /\ \A id \in CategoryIds :
         LET r == CategoriesService_getCategoryStats(db, id)
         IN /\ r.db = db
            /\ IF CategoryRows(db, id) = {} THEN r.status = NotFoundException
               ELSE /\ r.status = OK
                    /\ TheOne(r.value).stats.totalPosts =
                         Cardinality({j \in db.postCategories
                                        : j.categoryId = id})

\* The stats of a user were read who has a profile and wrote a comment under
\* a post of the other user, and no post of their own.
C22_Witness ==
    /\ last.op = "users.getUserStats"
    /\ last.status = OK
    /\ TheOne(last.value).stats =
         [totalPosts |-> 0, totalComments |-> 1, hasProfile |-> TRUE]
    /\ db.posts # {}
    /\ db.postCategories # {}

\* C23: whatever the published flag of an existing post is, and whatever
\* updates came before, update sets it to true and sets it to false; the
\* update changes that flag of that post only: every other post, and every
\* user, comment and join row, is as it was.
C23_PublishedIsFree ==
    \A p \in db.posts : \A b \in BOOLEAN :
        LET r == PostsService_update(db, p.id,
                                     [title |-> UNDEF, published |-> Some(b)])
        IN /\ r.status = OK
           /\ r.db.posts = (db.posts \ {p}) \cup {[p EXCEPT !.published = b]}
           /\ r.db.users = db.users
           /\ r.db.profiles = db.profiles
           /\ r.db.comments = db.comments
           /\ r.db.postCategories = db.postCategories
           /\ r.db.categories = db.categories

\* An update has set the flag of a post with a comment and a join row to
\* false after an update had set the flag of the other post to true (posts
\* are created unpublished).
C23_Witness ==
    /\ last.op = "posts.update"
    /\ last.status = OK
    /\ last.args.data.published = Some(FALSE)
    /\ \E p, q \in db.posts :
          /\ p.id = last.args.id /\ ~p.published
          /\ q.id # p.id /\ q.published
          /\ CommentsOfPost(db, p.id) # {}
          /\ JoinRowsOfPost(db, p.id) # {}

\* C24: a comment create whose postId or authorId names no row, and a post
\* create whose authorId names no user, fail and leave every table as it was;
\* when the rows they name exist, the create succeeds and adds exactly one
\* row, with the fields given, to its own table and changes no other row.
C24_CreatesNeedTheirParents ==
    /\ \A data \in CommentInputs :
         LET r == CommentsService_create(db, data, 0)
         IN IF PostRows(db, data.postId) = {} \/ UserRows(db, data.authorId) = {}
            THEN r.status # OK /\ Rows(r.db) = Rows(db)
            ELSE /\ r.status = OK
                 /\ \E c \in r.db.comments \ db.comments :
                      /\ r.db.comments = db.comments \cup {c}
                      /\ c.postId = data.postId
                      /\ c.authorId = data.authorId
                      /\ c.content = data.content
                 /\ [r.db EXCEPT !.comments = db.comments, !.seq = db.seq,
                                 !.clock = db.clock] = db
    /\ \A data \in [ title : Titles, published : {None, Some(TRUE)},
                      authorId : UserIds ] :
         LET r == PostsService_create(db, data)
         IN IF UserRows(db, data.authorId) = {}
            THEN r.status # OK /\ Rows(r.db) = Rows(db)
            ELSE /\ r.status = OK
                 /\ \E p \in r.db.posts \ db.posts :
                      /\ r.db.posts = db.posts \cup {p}
                      /\ p.authorId = data.authorId
                      /\ p.title = data.title
                 /\ [r.db EXCEPT !.posts = db.posts, !.seq = db.seq] = db

\* A comment create was refused for a missing post or author while users,
\* posts and a comment are stored, and the stored comment is still the only
\* one.
C24_Witness ==
    /\ last.op = "comments.create"
    /\ last.status = P2003
    /\ Cardinality(db.users) = 2
    /\ db.posts # {}
    /\ Cardinality(db.comments) = 1

\* A list of comments is newest first when no entry is older than a later one.
NewestFirst(s, at(_)) ==
    \A i, j \in 1..Len(s) : i < j => at(s[i]).createdAt >= at(s[j]).createdAt

\* A list holds exactly the rows of S, each once.
ListsExactly(s, at(_), S) ==
    /\ {at(s[i]) : i \in 1..Len(s)} = S
    /\ Len(s) = Cardinality(S)

\* C25: findByPost lists exactly the comments with that postId and findByUser
\* exactly those with that authorId, each once and newest first, whatever
\* order the store finds the rows in; findOne of a post lists exactly that
\* post's comments, each once and newest first, whatever order the store
\* finds them in.
C25_CommentsNewestFirst ==
    LET row(x) == x.comment
        self(x) == x
    IN /\ \A scan \in ScanOrders(db.comments) :
            /\ \A id \in PostIds :
                 LET r == CommentsService_findByPost(db, id, scan)
                 IN /\ r.status = OK /\ r.db = db
                    /\ ListsExactly(r.value, row, CommentsOfPost(db, id))
                    /\ NewestFirst(r.value, row)
            /\ \A id \in UserIds :
                 LET r == CommentsService_findByUser(db, id, scan)
                 IN /\ r.status = OK /\ r.db = db
                    /\ ListsExactly(r.value, row,
                                    {c \in db.comments : c.authorId = id})
                    /\ NewestFirst(r.value, row)
       /\ \A p \in db.posts :
          \A scan \in ScanOrders(CommentsOfPost(db, p.id)) :
            LET r == PostsService_findOne(db, p.id, scan)
            IN /\ r.status = OK /\ r.db = db
               /\ ListsExactly(TheOne(r.value).comments, self,
                               CommentsOfPost(db, p.id))
               /\ NewestFirst(TheOne(r.value).comments, self)

\* findOne of a post returned two comments of different age, the newer one
\* first, while two posts are stored; the store may find the older one first,
\* and findByPost and findByUser over such a scan list the newer one first.
C25_Witness ==
    /\ last.op = "posts.findOne"
    /\ last.status = OK
    /\ Cardinality(db.posts) = 2
    /\ \A v \in last.value :
         /\ Len(v.comments) = 2
         /\ v.comments[1].createdAt > v.comments[2].createdAt
         /\ \E scan \in ScanOrders(CommentsOfPost(db, v.post.id)) :
              /\ scan[1].createdAt < scan[2].createdAt
              /\ PostsService_findOne(db, v.post.id, scan).value = last.value
    /\ \E scan \in ScanOrders(db.comments) :
         /\ scan[1].createdAt < scan[2].createdAt
         /\ \E id \in PostIds :
              LET r == CommentsService_findByPost(db, id, scan)
              IN /\ Len(r.value) = 2
                 /\ r.value[1].comment = scan[2]
         /\ \E id \in UserIds :
              LET r == CommentsService_findByUser(db, id, scan)
              IN /\ Len(r.value) = 2
                 /\ r.value[1].comment = scan[2]

\* The rows of table `from` that reference a row of table `to`.
Referencing(D, from, to) ==
    CASE from = "profile" /\ to = "user" -> D.profiles
      [] from = "post" /\ to = "user" -> D.posts
      [] from = "comment" /\ to \in {"post", "user"} -> D.comments
      [] from = "postCategory" /\ to \in {"post", "category"} ->
           D.postCategories
      [] OTHER -> {}

\* C26: cleanDatabase throws and leaves every row in place when NODE_ENV is
\* production.  Otherwise it empties the tables in the order comments, join
\* rows, posts, profiles, categories, users: when a table is about to be
\* emptied the tables before it are empty and no row of a table emptied
\* later references it; when the call resolves no table has a row.
C26_CleanDatabaseInOrder ==
    LET c == steps.clean
        order == <<"comment", "postCategory", "post", "profile", "category",
                   "user">>
    IN /\ \A env \in NodeEnvs : CleanDatabaseThrows(env) <=> env = "production"
       /\ c.pc = "threw" => Rows(db) = c.before /\ last.status = Error
       /\ c.pc = "deleting" =>
            /\ CleanOrder[c.at] = order[c.at]
            /\ \A k \in 1..(c.at - 1) : TableRows(db, order[k]) = {}
            /\ \A k \in (c.at + 1)..Len(order) :
                 Referencing(db, order[k], order[c.at]) = {}
       /\ c.pc = "done" => \A k \in 1..Len(order) : TableRows(db, order[k]) = {}

\* A call that found rows in all six tables has emptied the comments and the
\* join rows and is about to empty the posts.
C26_Witness ==
    /\ steps.clean.pc = "deleting"
    /\ steps.clean.at = 3
    /\ \A k \in 1..Len(CleanOrder) :
         TableRows(steps.clean.before, CleanOrder[k]) # {}
    /\ db.comments = {} /\ db.postCategories = {}
    /\ db.posts # {}

\* C27: addCategories on a post id that no post has signals not-found and
\* leaves the store as it was; on an existing post with an array in which
\* some id names no category it fails and no join row is added, not even for
\* the ids of the array that name a category.  Served await by await while
\* rows are created and join rows deleted, the call signals not-found only
\* for a post that is not stored and fails otherwise only on a missing
\* category.
C27_AddCategoriesAllOrNothing ==
    /\ \A id \in PostIds, ids \in CategoryIdSeqs :
       \A cs \in ScanOrders(CommentsOfPost(db, id)) :
           LET r == PostsService_addCategories(db, id, ids, cs)
           IN /\ PostRows(db, id) = {} =>
                   r.status = NotFoundException /\ r.db = db
              /\ (PostRows(db, id) # {} /\ \E i \in 1..Len(ids) :
                                              CategoryRows(db, ids[i]) = {}) =>
                   r.status # OK /\ Rows(r.db) = Rows(db)
    /\ last.op = "posts.addCategories" =>
         /\ last.status = NotFoundException => PostRows(db, last.args.id) = {}
         /\ last.status \notin {OK, NotFoundException} =>
              /\ last.status = P2003
              /\ \E i \in 1..Len(last.args.categoryIds) :
                    CategoryRows(db, last.args.categoryIds[i]) = {}

\* An addCategories on an existing post failed with an array that names a
\* missing category and a stored category that is not attached to the post
\* (join rows were made before), and that category is still not attached.
C27_Witness ==
    /\ last.op = "posts.addCategories"
    /\ last.status = P2003
    /\ PostRows(db, last.args.id) # {}
    /\ \E i, j \in 1..Len(last.args.categoryIds) :
          /\ CategoryRows(db, last.args.categoryIds[i]) = {}
          /\ CategoryRows(db, last.args.categoryIds[j]) # {}
          /\ ~PairTaken(db.postCategories, last.args.id,
                        last.args.categoryIds[j])
    /\ db.seq.postCategory > 0

\* C28: however the three steps of addCategories interleave with removes of
\* the same post, the call ends either with the post and every id of the array
\* attached to it, or with not-found, and with no other error; and no join
\* row names a post that is gone.
C28_AddCategoriesRaceSafe ==
    /\ last.op = "posts.addCategories" =>
         \/ last.status = NotFoundException
         \/ /\ last.status = OK
            /\ \A i \in 1..Len(last.args.categoryIds) :
                 \E x \in TheOne(last.value).categories :
                     x.join.categoryId = last.args.categoryIds[i]
    /\ \A j \in db.postCategories : PostRows(db, j.postId) # {}

\* C29: removeCategory on an existing post to which the category is not
\* attached answers the post without error and leaves the store as it was; on
\* a post id that no post has it signals not-found and leaves the join table
\* as it was; and a second call with the same arguments answers as the first
\* did and changes nothing more.  Served await by await while posts are
\* created and removed, the call ends without error for a stored post and
\* with not-found for a post that is gone, and with nothing else.
C29_RemoveCategoryTolerant ==
    /\ \A id \in PostIds, categoryId \in CategoryIds :
       \A cs \in ScanOrders(CommentsOfPost(db, id)) :
           LET r == PostsService_removeCategory(db, id, categoryId, cs)
               again == PostsService_removeCategory(r.db, id, categoryId, cs)
           IN /\ (PostRows(db, id) # {}
                    /\ ~PairTaken(db.postCategories, id, categoryId)) =>
                   /\ r.status = OK
                   /\ r.db = db
                   /\ TheOne(r.value).post \in PostRows(db, id)
              /\ PostRows(db, id) = {} =>
                   /\ r.status = NotFoundException
                   /\ r.db.postCategories = db.postCategories
              /\ again.status = r.status
              /\ again.value = r.value
              /\ again.db = r.db
    /\ last.op = "posts.removeCategory" =>
         /\ last.status \in {OK, NotFoundException}
         /\ last.status = NotFoundException <=> PostRows(db, last.args.id) = {}

\* A removeCategory named a stored post and a stored category that were never
\* attached to each other (no join row was ever deleted), answered the post,
\* and the join rows of the post to the other category are stored.
C29_Witness ==
    /\ last.op = "posts.removeCategory"
    /\ last.status = OK
    /\ PostRows(db, last.args.id) # {}
    /\ CategoryRows(db, last.args.categoryId) # {}
    /\ ~PairTaken(db.postCategories, last.args.id, last.args.categoryId)
    /\ db.seq.postCategory = Cardinality(db.postCategories)
    /\ JoinRowsOfPost(db, last.args.id) # {}

\* C30: addComment on a post id that no post has signals not-found and leaves
\* the store as it was; on a stored post with a stored author it adds exactly
\* one comment, with that postId and authorId and the given content, and the
\* store it leaves is the one CommentsService.create leaves for the same
\* content, postId and authorId.  Served await by await, a call that signals
\* not-found names a post that is not stored, and a call that succeeds has
\* stored the comment it returns.
C30_AddCommentAsCreate ==
    /\ \A id \in PostIds, data \in [content : Contents, authorId : UserIds],
          tick \in {0, 1} :
       \A cs \in ScanOrders(CommentsOfPost(db, id)) :
           LET r == PostsService_addComment(db, id, data, tick, cs)
               same == CommentsService_create(db, [ content |-> data.content,
                                                    postId |-> id,
                                                    authorId |-> data.authorId ],
                                              tick)
           IN /\ PostRows(db, id) = {} =>
                   r.status = NotFoundException /\ r.db = db
              /\ (PostRows(db, id) # {} /\ UserRows(db, data.authorId) # {}) =>
                   /\ r.status = OK
                   /\ \E c \in r.db.comments \ db.comments :
                        /\ r.db.comments = db.comments \cup {c}
                        /\ c.postId = id
                        /\ c.authorId = data.authorId
                        /\ c.content = data.content
                   /\ same.status = OK
                   /\ r.db = same.db
    /\ last.op = "posts.addComment" =>
         /\ last.status = NotFoundException => PostRows(db, last.args.id) = {}
         /\ last.status = OK =>
              \E c \in db.comments :
                 /\ last.value = {c}
                 /\ c.postId = last.args.id
                 /\ c.authorId = last.args.data.authorId
                 /\ c.content = last.args.data.content

\* An addComment stored a second comment under a post, written by a user
\* who is not the author of the post.
C30_Witness ==
    /\ last.op = "posts.addComment"
    /\ last.status = OK
    /\ Cardinality(CommentsOfPost(db, last.args.id)) = 2
    /\ \E p \in PostRows(db, last.args.id) :
          p.authorId # last.args.data.authorId
    /\ TheOne(last.value) \in db.comments

====
